---- MODULE Spec2Model ----
(***************************************************************************)
(* Model of the fertilizer mixture optimizer                               *)
(* (src/src/core/mixture_calculation.py, calculate_best_mixture) and of    *)
(* the store it reads (src/src/database.py, FertilizingMixture).           *)
(*                                                                         *)
(* Numbers.  The code computes in binary floating point; the model         *)
(* computes the same expressions exactly, in fixed point:                  *)
(*   masses (targets, total_mass, absolute_mass, contributions)  in ug,    *)
(*   percentages in hundredths of a percent (the store keeps 2 decimals),  *)
(*   prices in hundredths of a currency unit per gram,                     *)
(*   values rounded by round(x, 2) in hundredths (of a gram, of a unit).   *)
(* round(x, 2) rounds to the nearest hundredth; on an exact decimal tie    *)
(* the outcome in the code depends on the binary representation of x, so   *)
(* the model allows both neighbours there.                                 *)
(***************************************************************************)
EXTENDS Integers, Sequences, FiniteSets, TLC

VARIABLES table, pc, args, ingredients, status, varValue, idx,
          total_cost, mixture_info, actual_composition, result

\* src/src/utils/utils.py: the last call of get_component_masses and the
\* mapping a caller hands to apply_nano_coefficients
VARIABLES gcm_args, gcm_result, component_masses, anc_args, anc_result

\* src/src/utils/validation.py: the last call of validate_decimal_string
VARIABLES vds_args, vds_result

\* src/src/database.py: the rows of the tables PlantCategory, Plant and
\* PlantFertilizingEpisode, and what the last call returned
VARIABLES plant_categories, plants, episodes, db_result

\* src/src/pages/mixtures_prices.py: whether the prices page is shown, its
\* actual_data, prices_changes_to_commit, the values of its price fields and
\* buttons_emerged; and what create_fertilizing_mixture returned last
VARIABLES prices_page, actual_data, prices_changes_to_commit, price_fields, buttons_emerged,
          cfm_result

\* src/src/app.py and src/src/pages/home.py: the page objects constructed so
\* far, the current one, the shown content, page.overlay, and the calculation
\* tasks of the home pages
VARIABLES page_objects, current_page_object, content_container, overlay, tasks

\* src/src/pages/json_db_import.py: the parsed dump, the fields of the page,
\* the position and the locals of _import_data_from_db_dump, the futures it
\* has made, the warning dialog, what it returned, and the tables as they
\* were when the open transaction and savepoint began
VARIABLES dump, import_page, import_pc, import_locals, futures, warning_dialog,
          import_result, transactions

\* the add-plant pages: NewPlantByMixturePage and NewPlantByNPKPage
VARIABLES mixture_page, npk_page

mixerVars == <<table, pc, args, ingredients, status, varValue, idx,
               total_cost, mixture_info, actual_composition, result>>

utilsVars == <<gcm_args, gcm_result, component_masses, anc_args, anc_result>>

validationVars == <<vds_args, vds_result>>

databaseVars == <<plant_categories, plants, episodes, db_result>>

catalogVars == <<prices_page, actual_data, prices_changes_to_commit, price_fields,
                 buttons_emerged, cfm_result>>

\* the locals and the result of calculate_best_mixture
mixerLocals == <<pc, args, ingredients, status, varValue, idx, total_cost, mixture_info,
                 actual_composition, result>>

navigationVars == <<page_objects, current_page_object, content_container, overlay, tasks>>

importVars == <<dump, import_page, import_pc, import_locals, futures, warning_dialog,
                import_result, transactions>>

wizardVars == <<mixture_page, npk_page>>

\* the state of the pages
pagesVars == <<catalogVars, navigationVars, importVars, wizardVars>>

\* the state outside calculate_best_mixture
notMixer == <<utilsVars, validationVars, databaseVars, pagesVars>>

\* the state outside utils.py
notUtils == <<mixerVars, validationVars, databaseVars, pagesVars>>

\* the state outside validation.py
notValidation == <<mixerVars, utilsVars, databaseVars, pagesVars>>

\* the state outside the plant tables of database.py
notDatabase == <<mixerVars, utilsVars, validationVars, pagesVars>>

\* the state outside the catalog and the prices page
notCatalog == <<mixerLocals, utilsVars, validationVars, databaseVars, navigationVars,
                importVars, wizardVars>>

\* the state outside the navigation and the tasks of the home page
notNavigation == <<mixerVars, utilsVars, validationVars, databaseVars, catalogVars,
                   importVars, wizardVars>>

\* the state outside the import page and the tables
notImport == <<mixerLocals, utilsVars, validationVars, db_result, catalogVars,
               navigationVars, wizardVars>>

\* the state outside the add-plant pages, the plant tables and the overlay
notWizard == <<mixerVars, utilsVars, validationVars, db_result, catalogVars,
               page_objects, current_page_object, content_container, tasks, importVars>>

vars == <<mixerVars, utilsVars, validationVars, databaseVars, pagesVars>>

\* one gram in ug
G == 1000 * 1000

\* the upper band of a nutrient constraint: required_amount + 0.5 (grams)
Half == G \div 2

\* unit step for ingredient quantities, in hundredths (step = 0.05)
step == 5

\* bound of the model: largest unit count tried for a variable that no
\* constraint bounds (a product with 0% N, 0% P and 0% K)
MaxFreeUnits == 2

Nutrients == {"N", "P", "K"}

ArgNames == <<"nitrogen", "phosphorus", "potassium", "total_mass">>

MassError == "mass must be greater than zero"

CompositionError == "could not find a matching composition"

NoResult == [kind |-> "none"]

None == [kind |-> "None"]

(***************************************************************************)
(* Arithmetic helpers                                                      *)
(***************************************************************************)
\* floor(a * b / d) for a >= 0, b >= 0, d > 0 without forming a * b
MulDiv(a, b, d) == (a \div d) * b + ((a % d) * b) \div d

\* (a * b) mod d
MulMod(a, b, d) == ((a % d) * b) % d

\* the sum of f[i] over i in 1..n
RECURSIVE SumTo(_, _)
SumTo(f, n) == IF n = 0 THEN 0 ELSE f[n] + SumTo(f, n - 1)

\* round(x, 2) of x = q + r / den hundredths (0 <= r < den): the nearest
\* hundredth; both neighbours on an exact tie
round2(q, r, den) ==
    IF 2 * r < den THEN {q}
    ELSE IF 2 * r > den THEN {q + 1}
    ELSE {q, q + 1}

(***************************************************************************)
(* The store: rows of FertilizingMixture in row order                      *)
(***************************************************************************)
Row(name, n, p, k, price) ==
    [name |-> name, nitrogen_percentage |-> n, phosphorus_percentage |-> p,
     potassium_percentage |-> k, price_per_gram |-> price]

\* the product names of the model, in ascending (lexicographic) order
NameOrder ==
    <<"A", "B", "C", "D", "E", "F", "FertBalanced", "FertCheap", "FertExpensive",
      "FertUnbalanced", "FertZero", "MagnesiumSulfate">>

NameKey(name) == CHOOSE i \in 1..Len(NameOrder) : NameOrder[i] = name

NameLess(a, b) == NameKey(a) < NameKey(b)

RECURSIVE InsertByName(_, _)
InsertByName(row, rows) ==
    IF rows = <<>> THEN <<row>>
    ELSE IF NameLess(row.name, Head(rows).name) THEN <<row>> \o rows
    ELSE <<Head(rows)>> \o InsertByName(row, Tail(rows))

\* FertilizingMixture.select().order_by(FertilizingMixture.name)
RECURSIVE OrderByName(_)
OrderByName(rows) ==
    IF rows = <<>> THEN <<>>
    ELSE InsertByName(Head(rows), OrderByName(Tail(rows)))

\* one entry of the ingredients list
Ingredient(row) ==
    [name |-> row.name,
     composition |-> [N |-> row.nitrogen_percentage,
                      P |-> row.phosphorus_percentage,
                      K |-> row.potassium_percentage],
     price |-> row.price_per_gram]

(***************************************************************************)
(* The integer program of calculate_best_mixture.  An assignment x gives   *)
(* one unit count per ingredient, x[i] for ingredients[i].                 *)
(***************************************************************************)
\* the mass of one unit of an ingredient: step * total_mass
UnitMass(mass) == (mass * step) \div 100

\* mutant: the step left out of the coefficient (composition * total_mass / 100)
CoefficientNoStep(ingredient, primitive, mass) ==
    MulDiv(mass, ingredient.composition[primitive], 100 * 100)

\* the coefficient of one variable in the constraints of one primitive:
\* composition * step * total_mass / 100
Coefficient(ingredient, primitive, mass) ==
    MulDiv(UnitMass(mass), ingredient.composition[primitive], 100 * 100)

\* the left-hand side of both constraints of a primitive
Contribution(x, ings, primitive, mass) ==
    SumTo([i \in 1..Len(ings) |-> x[i] * Coefficient(ings[i], primitive, mass)],
          Len(ings))

\* mutant: the price left out of the objective
ObjectiveUnits(x, ings) ==
    SumTo([i \in 1..Len(ings) |-> x[i] * step], Len(ings))

\* the objective: sum of variable * price * step
Objective(x, ings) ==
    SumTo([i \in 1..Len(ings) |-> x[i] * ings[i].price * step], Len(ings))

\* mutant: the band taken on both sides of the target (required_amount - 0.5)
LowerConstraintSlack(x, ings, primitive, mass, required_amount) ==
    Contribution(x, ings, primitive, mass) >= required_amount - Half

\* mutant: the comparison of the lower constraint turned around
LowerConstraintFlipped(x, ings, primitive, mass, required_amount) ==
    Contribution(x, ings, primitive, mass) <= required_amount

\* mutant: the lower constraint made strict
LowerConstraintStrict(x, ings, primitive, mass, required_amount) ==
    Contribution(x, ings, primitive, mass) > required_amount

\* lpSum(...) >= required_amount
LowerConstraint(x, ings, primitive, mass, required_amount) ==
    Contribution(x, ings, primitive, mass) >= required_amount

\* mutant: a band of one gram instead of half a gram
UpperBoundWide(required_amount) == required_amount + G

\* the right-hand side of the upper constraint: required_amount + 0.5
UpperBound(required_amount) == required_amount + Half

\* lpSum(...) <= required_amount + 0.5
UpperConstraint(x, ings, primitive, mass, required_amount) ==
    Contribution(x, ings, primitive, mass) <= UpperBound(required_amount)

\* all six constraints of the problem
Constraints(x, ings, desired, mass) ==
    \A primitive \in Nutrients :
        /\ LowerConstraint(x, ings, primitive, mass, desired[primitive])
        /\ UpperConstraint(x, ings, primitive, mass, desired[primitive])

(***************************************************************************)
(* The solver (pulp with CBC).  It is given the problem above and answers  *)
(* "Optimal" with one cost-minimal feasible assignment of non-negative     *)
(* integers, or "Infeasible".  Search enumerates the assignments count by  *)
(* count, leaving out the counts beyond which an upper bound is exceeded   *)
(* already by the counts chosen so far (all coefficients are >= 0), and    *)
(* keeps the assignments that satisfy the six constraints.                 *)
(***************************************************************************)
\* the largest count of ingredient k that keeps every upper constraint,
\* given the contributions `sums` of the ingredients before it
UnitCap(ings, k, sums, desired, mass) ==
    LET room(p) == UpperBound(desired[p]) - sums[p]
        coef(p) == Coefficient(ings[k], p, mass)
        bounding == { p \in Nutrients : coef(p) > 0 }
        caps == { room(p) \div coef(p) : p \in bounding }
    IN  IF \E p \in Nutrients : room(p) < 0 THEN 0 - 1
        ELSE IF bounding = {} THEN MaxFreeUnits
        ELSE CHOOSE c \in caps : \A d \in caps : c <= d

RECURSIVE Search(_, _, _, _, _)
Search(ings, x, sums, desired, mass) ==
    IF Len(x) = Len(ings)
    THEN IF Constraints(x, ings, desired, mass) THEN {x} ELSE {}
    ELSE LET k == Len(x) + 1
         IN  UNION { Search(ings, Append(x, c),
                            [p \in Nutrients |->
                               sums[p] + c * Coefficient(ings[k], p, mass)],
                            desired, mass) :
                     c \in 0..UnitCap(ings, k, sums, desired, mass) }

\* the assignments the solver may consider: those satisfying the constraints
Feasible(ings, desired, mass) ==
    Search(ings, <<>>, [p \in Nutrients |-> 0], desired, mass)

\* mutant: a solver that returns any assignment satisfying the constraints
OptimalAnyFeasible(ings, desired, mass) == Feasible(ings, desired, mass)

\* the assignments the solver may return
Optimal(ings, desired, mass) ==
    LET feasible == Feasible(ings, desired, mass)
    IN  { x \in feasible : \A y \in feasible : Objective(x, ings) <= Objective(y, ings) }

(***************************************************************************)
(* Inputs of the model: catalogs, and for each the requests tried on it.   *)
(* Every total mass is a multiple of 0.02 g and every coefficient a whole  *)
(* number of ug, so that the fixed-point arithmetic is exact               *)
(* (ExactArithmetic below).                                                *)
(***************************************************************************)
\* the types an argument may have
Types == {"int", "float", "Decimal", "str"}

\* the values of the given masses (ug) under each type; an int holds whole grams
Typed(values) ==
    { [type |-> t, val |-> v] : t \in Types, v \in values } \
    { a \in [type : {"int"}, val : values] : a.val % G # 0 }

\* two products with composition 12:12:0 and 0:0:12, total mass 4 g:
\* one unit is 0.2 g and carries 0.024 g of a nutrient
ScenarioFine ==
    LET a == Row("A", 1200, 1200, 0, 2)
        b == Row("B", 0, 0, 1200, 7)
    IN  [stores |-> {<<a, b>>, <<b, a>>},
         nitrogen |-> {0, 22000, 29000, 30000},
         phosphorus |-> {0, 30000, 510000, 600000},
         potassium |-> {0, 22000, 30000},
         total_mass |-> {4 * G, 0, 0 - 4 * G}]

\* one product 50:0:0, total mass 0.08 g and 0.1 g: one unit is 0.004 g
\* or 0.005 g
ScenarioTiny ==
    [stores |-> {<<Row("C", 5000, 0, 0, 10)>>},
     nitrogen |-> {0, 1500, 10000},
     phosphorus |-> {0},
     potassium |-> {0, 10000},
     total_mass |-> {80000, 100000}]

\* two products that carry the same nutrient at different prices per gram
\* of it (12:0:0 at 0.02 and 24:0:0 at 0.09), total mass 4 g
ScenarioChoice ==
    LET d == Row("D", 1200, 0, 0, 2)
        e == Row("E", 2400, 0, 0, 9)
    IN  [stores |-> {<<e, d>>},
         nitrogen |-> {0, 30000, 100000},
         phosphorus |-> {0},
         potassium |-> {0, 30000},
         total_mass |-> {4 * G}]

\* two products of the same composition and the same price (12:0:0 at 0.02),
\* total mass 4 g: every split of the units between them costs the same
ScenarioTie ==
    [stores |-> {<<Row("D", 1200, 0, 0, 2), Row("E", 1200, 0, 0, 2)>>},
     nitrogen |-> {30000, 50000},
     phosphorus |-> {0},
     potassium |-> {0},
     total_mass |-> {4 * G}]

\* two concentrated products (0:52:34 and 46:0:0), total mass 10 g: one unit
\* is 0.5 g
ScenarioPure ==
    [stores |-> {<<Row("A", 0, 5200, 3400, 5), Row("B", 4600, 0, 0, 3)>>},
     nitrogen |-> {0, 200000},
     phosphorus |-> {500000},
     potassium |-> {300000},
     total_mass |-> {10 * G}]

\* one product 50:0:0, total mass 40 g: one unit is 2 g and carries 1 g of
\* nitrogen, twice the width of the band
ScenarioCoarse ==
    [stores |-> {<<Row("F", 5000, 0, 0, 3)>>},
     nitrogen |-> {0, 400000, 500000, G, 1100000},
     phosphorus |-> {0},
     potassium |-> {0, 500000},
     total_mass |-> {40 * G}]

\* a product 12:12:0 and a product 0:0:0 priced as the seeded magnesium
\* sulfate (0.10 per gram), total mass 4 g
ScenarioMagnesium ==
    [stores |-> {<<Row("MagnesiumSulfate", 0, 0, 0, 10), Row("A", 1200, 1200, 0, 2)>>},
     nitrogen |-> {0, 30000},
     phosphorus |-> {0, 30000},
     potassium |-> {0, 30000},
     total_mass |-> {4 * G}]

\* the invalid dataset of the tests: one product 0:0:0
ScenarioZero ==
    [stores |-> {<<Row("FertZero", 0, 0, 0, 5)>>},
     nitrogen |-> {0 - 300000, 0, 10 * G},
     phosphorus |-> {0, 10 * G},
     potassium |-> {0, 10 * G},
     total_mass |-> {30 * G, 0}]

\* the standard dataset of the tests
ScenarioTest ==
    LET cheap == Row("FertCheap", 1000, 500, 500, 1)
        expensive == Row("FertExpensive", 2000, 2000, 2000, 15)
        balanced == Row("FertBalanced", 1200, 1200, 1200, 8)
        unbalanced == Row("FertUnbalanced", 2500, 500, 1500, 25)
    IN  [stores |-> {<<cheap, expensive, balanced, unbalanced>>,
                     <<unbalanced, expensive, cheap, balanced>>},
         nitrogen |-> {10 * G, 100 * G},
         phosphorus |-> {10 * G, 100 * G},
         potassium |-> {10 * G, 100 * G},
         total_mass |-> {300 * G, 0}]

Scenarios ==
    {ScenarioFine, ScenarioTiny, ScenarioChoice, ScenarioTie, ScenarioPure, ScenarioCoarse,
     ScenarioMagnesium, ScenarioZero, ScenarioTest}

\* the calls tried on a store
Requests(rows) ==
    UNION { [nitrogen : Typed(sc.nitrogen), phosphorus : Typed(sc.phosphorus),
             potassium : Typed(sc.potassium), total_mass : Typed(sc.total_mass)] :
            sc \in { s \in Scenarios : rows \in s.stores } }

(***************************************************************************)
(* calculate_best_mixture, step by step                                    *)
(***************************************************************************)
NoArgs == [n \in {"nitrogen", "phosphorus", "potassium", "total_mass"} |->
             [type |-> "float", val |-> 0]]

ZeroComposition == [p \in Nutrients |-> 0]

Locals ==
    /\ ingredients = <<>>
    /\ status = "Not Solved"
    /\ varValue = <<>>
    /\ idx = 0
    /\ total_cost = 0
    /\ mixture_info = <<>>
    /\ actual_composition = ZeroComposition

\* no call of utils.py has been made; the caller holds no mapping
UtilsIdle ==
    /\ gcm_args = NoResult
    /\ gcm_result = NoResult
    /\ component_masses = <<>>
    /\ anc_args = NoResult
    /\ anc_result = NoResult

\* no call of validation.py has been made
ValidationIdle ==
    /\ vds_args = NoResult
    /\ vds_result = NoResult

\* a table without rows
EmptyTable == [i \in {} |-> NoResult]

\* the plant tables as db.create_tables(...) makes them; no call made yet
DatabaseEmpty ==
    /\ plant_categories = EmptyTable
    /\ plants = EmptyTable
    /\ episodes = EmptyTable
    /\ db_result = NoResult

\* the prices page is not shown and create_fertilizing_mixture has not been
\* called
CatalogIdle ==
    /\ prices_page = "closed"
    /\ actual_data = [i \in {} |-> 0]
    /\ prices_changes_to_commit = [i \in {} |-> 0]
    /\ price_fields = [i \in {} |-> 0]
    /\ buttons_emerged = FALSE
    /\ cfm_result = NoResult

\* a reference to the n-th page object
Ref(n) == [kind |-> "object", id |-> n]

\* HomePage.__init__: ready to leave, the categories loaded
HomePage == [route |-> "home", ready_to_leave |-> TRUE, view |-> "categories",
             leaving_to |-> "none"]

\* the application as main() leaves it: on_navigate('home') has built the
\* first home page, no task has been started
NavigationIdle ==
    /\ page_objects = <<HomePage>>
    /\ current_page_object = Ref(1)
    /\ content_container = Ref(1)
    /\ overlay = <<>>
    /\ tasks = <<>>

\* the locals of _import_data_from_db_dump at its start; user_input_future
\* is 0 while the name is not bound
FreshLocals ==
    [ci |-> 1, pi |-> 1, ei |-> 1, mi |-> 1,
     category_id |-> 0, plant_id |-> 0, plant_created |-> FALSE,
     at_least_one_category_created |-> FALSE,
     at_least_one_mixture_created |-> FALSE,
     there_was_successful_plant_related_transaction |-> FALSE,
     main_transaction_to_be_terminated |-> FALSE,
     plant_related_transaction_failed |-> FALSE,
     user_input_future |-> 0,
     site |-> "none"]

ClosedDialog == [open |-> FALSE, buttons |-> "none", future |-> 0, error |-> ""]

\* JsonDbImportPage.__init__, and no import started
ImportIdle ==
    /\ dump = NoResult
    /\ import_page = [ready_to_leave |-> TRUE, view |-> "initial",
                      db_erasure_confirmed |-> FALSE, db_overwriting_confirmed |-> "None",
                      error_dialog |-> ""]
    /\ import_pc = "idle"
    /\ import_locals = FreshLocals
    /\ futures = <<>>
    /\ warning_dialog = ClosedDialog
    /\ import_result = NoResult
    /\ transactions = [main |-> NoResult, plant |-> NoResult]

\* NewPlantByMixturePage.__init__ and build: the plant view, nothing staged
MixturePage ==
    [view |-> "plant_metadata", plant_data_object |-> None,
     current_episode_number |-> None, current_component_number |-> None,
     error_dialog |-> ""]

\* NewPlantByNPKPage.__init__: the modal closed, nothing staged
NPKPage ==
    [modal |-> FALSE, plant_data_object |-> None, current_episode_number |-> 0,
     error_dialog |-> ""]

\* no input on either add-plant page
WizardIdle ==
    /\ mixture_page = MixturePage
    /\ npk_page = NPKPage

\* the application has just started: no page but the first home page has
\* been opened
PagesIdle ==
    /\ CatalogIdle
    /\ NavigationIdle
    /\ ImportIdle
    /\ WizardIdle

Init ==
    /\ table \in UNION { sc.stores :
                         sc \in {ScenarioFine, ScenarioTiny, ScenarioChoice,
                                 ScenarioTie, ScenarioPure, ScenarioCoarse,
                                 ScenarioMagnesium, ScenarioZero} }
    /\ pc = "idle"
    /\ args = NoArgs
    /\ result = NoResult
    /\ Locals
    /\ UtilsIdle
    /\ ValidationIdle
    /\ DatabaseEmpty
    /\ PagesIdle

InitScenario ==
    /\ table \in UNION { sc.stores : sc \in {ScenarioTest, ScenarioZero} }
    /\ pc = "idle"
    /\ args = NoArgs
    /\ result = NoResult
    /\ Locals
    /\ UtilsIdle
    /\ ValidationIdle
    /\ DatabaseEmpty
    /\ PagesIdle

\* a call with some arguments; every call starts from fresh locals
Call ==
    /\ pc = "idle"
    /\ args' \in Requests(table)
    /\ pc' = "check"
    /\ UNCHANGED <<table, ingredients, status, varValue, idx, total_cost,
                   mixture_info, actual_composition, result>>
    /\ UNCHANGED notMixer

\* mutant: a str accepted too
IsNumberOrStr(value) == value.type \in {"float", "int", "Decimal", "str"}

\* isinstance(value, float) or isinstance(value, (int, Decimal))
IsNumber(value) == value.type \in {"float", "int", "Decimal"}

\* float(value)
ToFloat(value) == [type |-> "float", val |-> value.val]

\* the loop over locals(): raise TypeError at the first argument that is no
\* number, convert the others to float
TypeCheck ==
    /\ pc = "check"
    /\ LET bad == { i \in 1..Len(ArgNames) : ~IsNumber(args[ArgNames[i]]) }
       IN  IF bad # {}
           THEN /\ result' = [kind |-> "raise", exception |-> "TypeError",
                              name |-> ArgNames[CHOOSE i \in bad : \A j \in bad : i <= j]]
                /\ pc' = "done"
                /\ UNCHANGED args
           ELSE /\ args' = [n \in DOMAIN args |-> ToFloat(args[n])]
                /\ pc' = "guard"
                /\ UNCHANGED result
    /\ UNCHANGED <<table, ingredients, status, varValue, idx, total_cost,
                   mixture_info, actual_composition>>
    /\ UNCHANGED notMixer

\* mutant: the guard written total_mass < 0
MassRejectedStrict(mass) == mass < 0

\* total_mass <= 0
MassRejected(mass) == mass <= 0

\* if total_mass <= 0: return the failure
MassGuard ==
    /\ pc = "guard"
    /\ IF MassRejected(args.total_mass.val)
       THEN /\ result' = [kind |-> "return", success |-> FALSE, error |-> MassError]
            /\ pc' = "done"
       ELSE /\ pc' = "load"
            /\ UNCHANGED result
    /\ UNCHANGED <<table, args, ingredients, status, varValue, idx, total_cost,
                   mixture_info, actual_composition>>
    /\ UNCHANGED notMixer

\* mutant: the query without order_by
SelectAll(rows) == rows

\* the query of the catalog
Query(rows) == OrderByName(rows)

\* loading available fertilizing mixtures from the database
LoadCatalog ==
    /\ pc = "load"
    /\ ingredients' = [i \in 1..Len(table) |-> Ingredient(Query(table)[i])]
    /\ pc' = "solve"
    /\ UNCHANGED <<table, args, status, varValue, idx, total_cost, mixture_info,
                   actual_composition, result>>
    /\ UNCHANGED notMixer

desired_composition ==
    [N |-> args.nitrogen.val, P |-> args.phosphorus.val, K |-> args.potassium.val]

\* problem.solve(...): the status and the values of the variables
Solve ==
    /\ pc = "solve"
    /\ LET optimal == Optimal(ingredients, desired_composition, args.total_mass.val)
       IN  IF optimal = {}
           THEN /\ status' = "Infeasible"
                /\ UNCHANGED varValue
           ELSE /\ status' = "Optimal"
                /\ varValue' \in optimal
    /\ pc' = "status"
    /\ UNCHANGED <<table, args, ingredients, idx, total_cost, mixture_info,
                   actual_composition, result>>
    /\ UNCHANGED notMixer

\* if the status is not 'Optimal': return the failure; else start the loop
\* over the ingredients
StatusCheck ==
    /\ pc = "status"
    /\ IF status # "Optimal"
       THEN /\ result' = [kind |-> "return", success |-> FALSE, error |-> CompositionError]
            /\ pc' = "done"
            /\ UNCHANGED idx
       ELSE /\ idx' = 1
            /\ pc' = "extract"
            /\ UNCHANGED result
    /\ UNCHANGED <<table, args, ingredients, status, varValue, total_cost,
                   mixture_info, actual_composition>>
    /\ UNCHANGED notMixer

\* mutant: the fraction of the mixture taken for the mass (the product with
\* total_mass left out)
AbsoluteMassFraction(units, mass) == units * step * (G \div 100)

\* amount_in_mixture * total_mass, with amount_in_mixture = varValue * step
AbsoluteMass(units, mass) == units * UnitMass(mass)

\* mutant: the cost cut off after two decimals
CostTruncated(price, absolute_mass) == {MulDiv(absolute_mass, price, G)}

\* round(ingredient['price'] * absolute_mass, 2)
Cost(price, absolute_mass) ==
    round2(MulDiv(absolute_mass, price, G), MulMod(absolute_mass, price, G), G)

\* round(absolute_mass, 2)
MassInGrams(absolute_mass) ==
    round2(absolute_mass \div (100 * 100), absolute_mass % (100 * 100), 100 * 100)

\* mutant: every ingredient appended
SelectedAlways(units) == TRUE

\* if amount_in_mixture
Selected(units) == units # 0

\* mutant: total_cost = cost
AddCostOverwrite(total, cost) == cost

\* total_cost += cost
AddCost(total, cost) == total + cost

\* one pass of the loop that processes the solution
Extract ==
    /\ pc = "extract"
    /\ idx <= Len(ingredients)
    /\ LET ingredient == ingredients[idx]
           absolute_mass == AbsoluteMass(varValue[idx], args.total_mass.val)
       IN  \E cost \in Cost(ingredient.price, absolute_mass) :
             IF Selected(varValue[idx])
             THEN \E mass_in_grams \in MassInGrams(absolute_mass) :
                    /\ mixture_info' = Append(mixture_info,
                           [name |-> ingredient.name,
                            mass_in_grams |-> mass_in_grams,
                            cost |-> cost])
                    /\ total_cost' = AddCost(total_cost, cost)
                    /\ actual_composition' =
                           [p \in Nutrients |->
                              actual_composition[p]
                              + MulDiv(absolute_mass, ingredient.composition[p], 100 * 100)]
             ELSE UNCHANGED <<mixture_info, total_cost, actual_composition>>
    /\ idx' = idx + 1
    /\ UNCHANGED <<table, pc, args, ingredients, status, varValue, result>>
    /\ UNCHANGED notMixer

\* round(total_cost, 2): total_cost is a sum of hundredths
TotalCost(sum) == round2(sum, 0, 1)

\* round(value, 2) of an achieved mass
Achieved(value) == round2(value \div (100 * 100), value % (100 * 100), 100 * 100)

\* the return of the successful result
ReturnSuccess ==
    /\ pc = "extract"
    /\ idx > Len(ingredients)
    /\ \E cost \in TotalCost(total_cost) :
       \E n \in Achieved(actual_composition["N"]) :
       \E p \in Achieved(actual_composition["P"]) :
       \E k \in Achieved(actual_composition["K"]) :
          result' = [kind |-> "return", success |-> TRUE,
                     mixture |-> mixture_info,
                     total_cost |-> cost,
                     actual_composition |-> [N |-> n, P |-> p, K |-> k]]
    /\ pc' = "done"
    /\ UNCHANGED <<table, args, ingredients, status, varValue, idx, total_cost,
                   mixture_info, actual_composition>>
    /\ UNCHANGED notMixer

\* the name under which the catalog holds magnesium sulfate
MagnesiumSulfateName == "MagnesiumSulfate"

\* the mixture data that _obtain_mixture_data_and_layout of the home page
\* shows for an episode with magnesium sulfate: the mixture of the
\* calculation with one more entry, whose cost is price x mass rounded half
\* up, or unknown when the catalog has no such product
WithMagnesiumSulfate(mixture_data, rows, magnesium_sulfate_mass) ==
    LET found == { i \in 1..Len(rows) : rows[i].name = MagnesiumSulfateName }
    IN  IF found # {}
        THEN Append(mixture_data,
                    [name |-> MagnesiumSulfateName,
                     mass_in_grams |-> magnesium_sulfate_mass,
                     cost |-> (rows[CHOOSE i \in found : TRUE].price_per_gram
                                 * magnesium_sulfate_mass + 50) \div 100])
        ELSE Append(mixture_data,
                    [name |-> MagnesiumSulfateName,
                     mass_in_grams |-> magnesium_sulfate_mass,
                     cost_undefined |-> TRUE])

\* the caller has taken the result (or the exception)
Finish ==
    /\ pc = "done"
    /\ pc' = "idle"
    /\ args' = NoArgs
    /\ result' = NoResult
    /\ ingredients' = <<>>
    /\ status' = "Not Solved"
    /\ varValue' = <<>>
    /\ idx' = 0
    /\ total_cost' = 0
    /\ mixture_info' = <<>>
    /\ actual_composition' = ZeroComposition
    /\ UNCHANGED table
    /\ UNCHANGED notMixer

Next ==
    \/ Call
    \/ Finish
    \/ TypeCheck
    \/ MassGuard
    \/ LoadCatalog
    \/ Solve
    \/ StatusCheck
    \/ Extract
    \/ ReturnSuccess

Spec == Init /\ [][Next]_vars

SpecScenario == InitScenario /\ [][Next]_vars

(***************************************************************************)
(* src/src/utils/utils.py.  A Decimal is held exactly, as a whole number   *)
(* of thousandths (Decimal('33.333') is 33333, Decimal('0.5') is 500); a   *)
(* value quantized to Decimal('0.01') is a multiple of 10.  The inputs of  *)
(* the model have at most 3 decimal places and at most 6 digits, so the    *)
(* Decimal context (28 digits) never rounds a product.                     *)
(***************************************************************************)
\* Decimal('1') in thousandths
Milli == 1000

\* an argument of the given type and value
Value(type, val) == [type |-> type, val |-> val]

Dec(val) == Value("Decimal", val)

\* the exact value (whole + rest / den) hundredths, 0 <= rest < den
Exact(whole, rest, den) == [whole |-> whole, rest |-> rest, den |-> den]

\* a * b for Decimals a, b >= 0: the product is never formed as one number,
\* b is split into its thousands and the rest
Times(a, b) ==
    LET high == a * (b \div 1000)
        low == a * (b % 1000)
        rest == (high % 10) * 1000 + low
    IN  Exact(high \div 10 + rest \div (100 * 100), rest % (100 * 100), 100 * 100)

\* x / 100 for an exact value x
Hundredth(x) ==
    Exact(x.whole \div 100, (x.whole % 100) * x.den + x.rest, 100 * x.den)

\* mutant: ROUND_HALF_EVEN
QuantizeHalfEven(x) ==
    IF 2 * x.rest > x.den THEN 10 * (x.whole + 1)
    ELSE IF 2 * x.rest < x.den THEN 10 * x.whole
    ELSE IF x.whole % 2 = 0 THEN 10 * x.whole ELSE 10 * (x.whole + 1)

\* x.quantize(Decimal('0.01'), rounding=ROUND_HALF_UP), as a Decimal
Quantize(x) ==
    IF 2 * x.rest >= x.den THEN 10 * (x.whole + 1) ELSE 10 * x.whole

\* percentage / 100 * total_mass
ElementMass(percentage, total_mass) == Hundredth(Times(percentage, total_mass))

\* an exception of the given class; its message, and the argument or key the
\* message names ("" when it names none)
Raise(exception, message, name) ==
    [kind |-> "raise", exception |-> exception, message |-> message, name |-> name]

Return(value) == [kind |-> "return", value |-> value]

GcmNames == <<"n_percentage", "p_percentage", "k_percentage", "total_mass">>

\* mutant: any number accepted
IsNumeric(value) == value.type \in {"Decimal", "int", "float"}

\* isinstance(value, Decimal)
IsDecimal(value) == value.type = "Decimal"

\* mutant: the bounds of the range left out of it
PercentageInOpenRange(percentage) == 0 < percentage /\ percentage < 100 * Milli

\* 0 <= percentage <= 100
PercentageInRange(percentage) == 0 <= percentage /\ percentage <= 100 * Milli

\* get_component_masses(n_percentage, p_percentage, k_percentage, total_mass):
\* what the call returns or raises
get_component_masses(a) ==
    LET bad == { i \in 1..4 : ~IsDecimal(a[GcmNames[i]]) }
    IN  IF bad # {}
        THEN Raise("TypeError", "must be a Decimal instance",
                   GcmNames[CHOOSE i \in bad : \A j \in bad : i <= j])
        ELSE IF ~(/\ PercentageInRange(a.n_percentage.val)
                  /\ PercentageInRange(a.p_percentage.val)
                  /\ PercentageInRange(a.k_percentage.val))
        THEN Raise("ValueError", "Percentages must be between 0 and 100.", "")
        ELSE IF a.total_mass.val <= 0
        THEN Raise("ValueError", "Total mass must be greater than zero.", "")
        ELSE Return([N |-> Dec(Quantize(ElementMass(a.n_percentage.val, a.total_mass.val))),
                     P |-> Dec(Quantize(ElementMass(a.p_percentage.val, a.total_mass.val))),
                     K |-> Dec(Quantize(ElementMass(a.k_percentage.val, a.total_mass.val)))])

\* the values of the given Decimals under each type; an int holds a whole
\* number
TypedValues(values) ==
    { Value(t, v) : t \in Types, v \in values } \
    { a \in [type : {"int"}, val : values] : a.val % Milli # 0 }

\* the percentages tried: below, at and above the ends of the range, the
\* values of the tests, and 12.5 (a tie at 0.125 with a total mass of 1)
GcmPercentages ==
    {0 - 1, 0, 5, 12500, 33330, 33333, 33340, 10999, 99999, 100 * Milli, 100 * Milli + 1}

\* the total masses tried
GcmMasses == {300 * Milli, 100 * Milli, Milli, 125, 1, 0, 0 - Milli}

\* the calls of get_component_masses tried: every combination of the values
\* as Decimals, and every combination of types on a few values
GcmRequests ==
    [n_percentage : { Dec(v) : v \in GcmPercentages },
     p_percentage : { Dec(v) : v \in {0 - 1, 0, 33330, 99999, 100 * Milli} },
     k_percentage : { Dec(v) : v \in {0, 33340, 10999, 100 * Milli, 100 * Milli + 1} },
     total_mass : { Dec(v) : v \in GcmMasses }]
    \cup
    [n_percentage : TypedValues({10 * Milli, 110 * Milli}),
     p_percentage : TypedValues({20 * Milli}),
     k_percentage : TypedValues({30 * Milli}),
     total_mass : TypedValues({100 * Milli, 0})]

\* a call of get_component_masses, by a caller that holds no mapping
GetComponentMasses ==
    /\ UtilsIdle
    /\ \E a \in GcmRequests :
          /\ gcm_args' = a
          /\ gcm_result' = get_component_masses(a)
    /\ component_masses' = <<>>
    /\ anc_args' = NoResult
    /\ anc_result' = NoResult
    /\ UNCHANGED notUtils

\* the caller keeps the returned masses as its mapping
\* (component_masses = get_component_masses(...))
TakeMasses ==
    /\ gcm_result.kind = "return"
    /\ component_masses' = gcm_result.value
    /\ gcm_args' = NoResult
    /\ gcm_result' = NoResult
    /\ anc_args' = NoResult
    /\ anc_result' = NoResult
    /\ UNCHANGED notUtils

Elements == <<"N", "P", "K">>

AncNames == <<"n_coefficient", "p_coefficient", "k_coefficient">>

\* the pass of the first loop for one element: the exception it raises, or
\* NoResult
ElementCheck(mapping, element) ==
    IF element \notin DOMAIN mapping
    THEN Raise("ValueError", "Missing required key", element)
    ELSE IF ~IsDecimal(mapping[element])
    THEN Raise("TypeError", "must be a Decimal instance", element)
    ELSE IF mapping[element].val < 0
    THEN Raise("ValueError", "must be non-negative", element)
    ELSE NoResult

\* mutant: the upper end of the range left unchecked
CoefficientNonNegative(coefficient) == 0 <= coefficient

\* 0 <= coefficient <= 1
CoefficientInRange(coefficient) == 0 <= coefficient /\ coefficient <= Milli

\* the pass of the second loop for one coefficient
CoefficientCheck(a, name) ==
    IF ~IsDecimal(a[name])
    THEN Raise("TypeError", "must be a Decimal instance", name)
    ELSE IF ~CoefficientInRange(a[name].val)
    THEN Raise("ValueError", "must be between 0 and 1", name)
    ELSE NoResult

\* the first exception of the passes, in the order of the code
FirstRaise(passes) ==
    LET raised == { i \in 1..Len(passes) : passes[i].kind = "raise" }
    IN  IF raised = {} THEN NoResult
        ELSE passes[CHOOSE i \in raised : \A j \in raised : i <= j]

\* a Decimal that quantize(Decimal('0.01')) cannot represent in the 28 digits
\* of the context, such as Decimal('Infinity') or Decimal('1E30'); it is
\* larger than every number
Infinity == 2 * 1000 * 1000 * 1000

\* the product with a coefficient, or its quantize, raises InvalidOperation
QuantizeFails(mass) == mass.val = Infinity

\* the assignments of the elements before the one at place `stop`, which are
\* made one after the other in the order N, P, K
AssignedBefore(mapping, a, stop) ==
    [key \in DOMAIN mapping |->
        IF \E i \in 1..(stop - 1) : Elements[i] = key
        THEN Dec(Quantize(Times(mapping[key].val,
                                a[AncNames[CHOOSE i \in 1..3 : Elements[i] = key]].val)))
        ELSE mapping[key]]

\* mutant: the assignments made to a copy, the caller's mapping left as it was
AssignedToCopy(mapping, a) == mapping

\* the three assignments component_masses[element] = (... * coefficient).quantize(...)
Assigned(mapping, a) == AssignedBefore(mapping, a, Len(Elements) + 1)

\* mutant: the defaults of phosphorus and potassium exchanged
DefaultsSwapped ==
    [n_coefficient |-> Dec(500), p_coefficient |-> Dec(400), k_coefficient |-> Dec(200)]

\* the default coefficients: 0.5, 0.2, 0.4
Defaults ==
    [n_coefficient |-> Dec(500), p_coefficient |-> Dec(200), k_coefficient |-> Dec(400)]

\* the parameters of a call with the given keyword arguments
Bound(given) ==
    [name \in {"n_coefficient", "p_coefficient", "k_coefficient"} |->
        IF name \in DOMAIN given THEN given[name] ELSE Defaults[name]]

\* apply_nano_coefficients(component_masses, n_coefficient=..., ...): the
\* mapping after the call, and what the call returns (None) or raises
apply_nano_coefficients(mapping, given) ==
    LET a == Bound(given)
        raised == FirstRaise([i \in 1..3 |-> ElementCheck(mapping, Elements[i])]
                             \o [i \in 1..3 |-> CoefficientCheck(a, AncNames[i])])
        failing == { i \in 1..3 : Elements[i] \in DOMAIN mapping
                                     /\ QuantizeFails(mapping[Elements[i]]) }
    IN  IF raised.kind = "raise"
        THEN [mapping |-> mapping, outcome |-> raised]
        ELSE IF failing # {}
        THEN LET stop == CHOOSE i \in failing : \A j \in failing : i <= j
             IN  [mapping |-> AssignedBefore(mapping, a, stop),
                  outcome |-> Raise("InvalidOperation", "", Elements[stop])]
        ELSE [mapping |-> Assigned(mapping, a), outcome |-> [kind |-> "return"]]

\* the coefficients tried for each keyword
AncValues ==
    [n_coefficient |-> { Dec(v) : v \in {0 - 1, 0, 500, Milli, Milli + 1} }
                       \cup {Value("float", 500), Value("str", 500)},
     p_coefficient |-> {Dec(2 * Milli), Value("float", 200)},
     k_coefficient |-> {Value("int", Milli)}]

\* the keyword arguments of the calls tried: each coefficient given or left
\* to its default
AncRequests ==
    UNION { { a \in [keys -> UNION { AncValues[k] : k \in keys }] :
              \A k \in keys : a[k] \in AncValues[k] } :
            keys \in SUBSET {"n_coefficient", "p_coefficient", "k_coefficient"} }

\* the mappings a caller builds: each of N, P, K absent or present, and
\* another key that the function has no business with
AncMappings ==
    LET values == [N |-> {Dec(100 * Milli), Dec(100555), Dec(25), Dec(0), Dec(0 - 1),
                          Value("float", 100 * Milli)},
                   P |-> {Dec(50 * Milli), Dec(50333), Dec(25), Dec(0 - 10),
                          Value("str", 50 * Milli), Dec(Infinity)},
                   K |-> {Dec(150 * Milli), Dec(150777), Value("int", 150 * Milli)},
                   Ca |-> {Value("str", 7)}]
    IN  UNION { { m \in [keys -> UNION { values[k] : k \in keys }] :
                  \A k \in keys : m[k] \in values[k] } :
                keys \in SUBSET {"N", "P", "K", "Ca"} }

\* the caller builds a mapping
NewMapping ==
    /\ UtilsIdle
    /\ component_masses' \in AncMappings
    /\ gcm_args' = NoResult
    /\ gcm_result' = NoResult
    /\ anc_args' = NoResult
    /\ anc_result' = NoResult
    /\ UNCHANGED notUtils

\* a call of apply_nano_coefficients on the caller's mapping; an exception
\* ends the caller's chain of calls
ApplyNanoCoefficients ==
    /\ gcm_result = NoResult
    /\ anc_result.kind # "raise"
    /\ \E a \in AncRequests :
          LET call == apply_nano_coefficients(component_masses, a)
          IN  /\ anc_args' = a
              /\ component_masses' = call.mapping
              /\ anc_result' = call.outcome
    /\ UNCHANGED <<gcm_args, gcm_result>>
    /\ UNCHANGED notUtils

\* the caller is done with the result and with its mapping
Drop ==
    /\ ~UtilsIdle
    /\ gcm_args' = NoResult
    /\ gcm_result' = NoResult
    /\ component_masses' = <<>>
    /\ anc_args' = NoResult
    /\ anc_result' = NoResult
    /\ UNCHANGED notUtils

InitUtils ==
    /\ table = <<>>
    /\ pc = "idle"
    /\ args = NoArgs
    /\ result = NoResult
    /\ Locals
    /\ UtilsIdle
    /\ ValidationIdle
    /\ DatabaseEmpty
    /\ PagesIdle

NextUtils ==
    \/ GetComponentMasses
    \/ TakeMasses
    \/ NewMapping
    \/ ApplyNanoCoefficients
    \/ Drop

SpecUtils == InitUtils /\ [][NextUtils]_vars

(***************************************************************************)
(* src/src/utils/validation.py, validate_decimal_string.  A string is the  *)
(* sequence of its characters.  Decimal(value_str) is modelled by a parser *)
(* of the syntax the decimal module accepts; a finite Decimal is held as   *)
(* its signed coefficient and its exponent, as as_tuple() gives them       *)
(* (Decimal('1.50') is 150 and -2, Decimal('1E3') is 1 and 3).             *)
(***************************************************************************)
\* bound of the model: the longest string built from StrChars
MaxStrLen == 4

\* the characters of the strings tried
StrChars == {"0", "1", "5", ".", "-", "E", " "}

Digits == <<"0", "1", "2", "3", "4", "5", "6", "7", "8", "9">>

IsDigit(c) == \E i \in 1..10 : Digits[i] = c

DigitValue(c) == (CHOOSE i \in 1..10 : Digits[i] = c) - 1

AllDigits(str) == \A i \in 1..Len(str) : IsDigit(str[i])

\* int(str) of a string of digits ('' gives 0)
RECURSIVE ToInt(_)
ToInt(str) ==
    IF str = <<>> THEN 0
    ELSE 10 * ToInt(SubSeq(str, 1, Len(str) - 1)) + DigitValue(str[Len(str)])

\* str.find(c) + 1: the place of the first c in str, 0 when there is none
Find(str, c) ==
    LET places == { i \in 1..Len(str) : str[i] = c }
    IN  IF places = {} THEN 0 ELSE CHOOSE i \in places : \A j \in places : i <= j

\* str.strip()
Strip(str) ==
    LET inked == { i \in 1..Len(str) : str[i] # " " }
    IN  IF inked = {} THEN <<>>
        ELSE SubSeq(str, CHOOSE i \in inked : \A j \in inked : i <= j,
                         CHOOSE i \in inked : \A j \in inked : i >= j)

Finite(coef, exp) == [kind |-> "finite", coef |-> coef, exp |-> exp]

\* Decimal(value_str): [sign] digits [. digits] [E [sign] digits] with at
\* least one digit before the E, or [sign] Inf, or NaN, white space around it
\* ignored; "invalid" stands for InvalidOperation
ParseDecimal(value_str) ==
    LET t == Strip(value_str)
        signed == t # <<>> /\ t[1] \in {"-", "+"}
        sign == IF signed /\ t[1] = "-" THEN 0 - 1 ELSE 1
        body == IF signed THEN Tail(t) ELSE t
        e == Find(body, "E")
        mantissa == IF e = 0 THEN body ELSE SubSeq(body, 1, e - 1)
        exponent == IF e = 0 THEN <<>> ELSE SubSeq(body, e + 1, Len(body))
        dot == Find(mantissa, ".")
        int == IF dot = 0 THEN mantissa ELSE SubSeq(mantissa, 1, dot - 1)
        frac == IF dot = 0 THEN <<>> ELSE SubSeq(mantissa, dot + 1, Len(mantissa))
        expSigned == exponent # <<>> /\ exponent[1] \in {"-", "+"}
        expSign == IF expSigned /\ exponent[1] = "-" THEN 0 - 1 ELSE 1
        expDigits == IF expSigned THEN Tail(exponent) ELSE exponent
    IN  IF body = <<"I", "n", "f">> THEN [kind |-> "Infinity", sign |-> sign]
        ELSE IF body = <<"N", "a", "N">> THEN [kind |-> "NaN"]
        ELSE IF /\ AllDigits(int) /\ AllDigits(frac)
                /\ Len(int) + Len(frac) > 0
                /\ e # 0 => (expDigits # <<>> /\ AllDigits(expDigits))
        THEN Finite(sign * ToInt(int \o frac), expSign * ToInt(expDigits) - Len(frac))
        ELSE [kind |-> "invalid"]

RECURSIVE Pow10(_)
Pow10(n) == IF n = 0 THEN 1 ELSE 10 * Pow10(n - 1)

\* larger than every coefficient of the model
Huge == 2 * 1000 * 1000 * 1000

\* coef * 10^shift, or Huge with the sign of coef when that is beyond Huge
Shifted(coef, shift) ==
    LET magnitude == IF coef < 0 THEN 0 - coef ELSE coef
    IN  IF coef = 0 THEN 0
        ELSE IF shift > 9 \/ magnitude > Huge \div Pow10(shift)
        THEN IF coef < 0 THEN 0 - Huge ELSE Huge
        ELSE coef * Pow10(shift)

\* a < b for a Decimal a that is finite or infinite and a finite Decimal b
Less(a, b) ==
    IF a.kind = "Infinity" THEN a.sign < 0
    ELSE LET low == IF a.exp < b.exp THEN a.exp ELSE b.exp
         IN  Shifted(a.coef, a.exp - low) < Shifted(b.coef, b.exp - low)

\* a > b, likewise
Greater(a, b) ==
    IF a.kind = "Infinity" THEN a.sign > 0
    ELSE LET low == IF a.exp < b.exp THEN a.exp ELSE b.exp
         IN  Shifted(a.coef, a.exp - low) > Shifted(b.coef, b.exp - low)

Failure(error) == [kind |-> "return", success |-> FALSE, error |-> error]

Success(value) == [kind |-> "return", success |-> TRUE, value |-> value]

\* abs(value.as_tuple().exponent)
AbsExponent(exponent) == IF exponent < 0 THEN 0 - exponent ELSE exponent

\* validate_decimal_string(value_str, min_value=..., max_value=...,
\* max_decimals=..., required=...): what the call returns or raises
validate_decimal_string(a) ==
    IF a.value_str.type # "str" THEN Failure("must have the format str")
    ELSE IF a.required /\ Strip(a.value_str.chars) = <<>> THEN Failure("must not be empty")
    ELSE LET value == ParseDecimal(a.value_str.chars)
         IN  IF value.kind = "invalid" THEN Failure("must be a number")
             ELSE IF value.kind = "NaN"
             THEN IF a.min_value # None \/ a.max_value # None
                  THEN Failure("must be a number")
                  ELSE Raise("TypeError", "bad operand type for abs()", "")
             ELSE IF a.min_value # None /\ Less(value, a.min_value)
             THEN Failure("must be greater than or equal to min_value")
             ELSE IF a.max_value # None /\ Greater(value, a.max_value)
             THEN Failure("must be less than or equal to max_value")
             ELSE IF value.kind = "Infinity"
             THEN Raise("TypeError", "bad operand type for abs()", "")
             ELSE IF AbsExponent(value.exp) > a.max_decimals
             THEN Failure("must contain no more than max_decimals decimal places")
             ELSE Success(value)

\* the strings of at most n characters of StrChars
RECURSIVE StringsUpTo(_)
StringsUpTo(n) ==
    IF n = 0 THEN {<<>>}
    ELSE LET shorter == StringsUpTo(n - 1)
         IN  shorter \cup { Append(str, c) : str \in shorter, c \in StrChars }

\* the strings of the tests that are longer or use other characters
TestStrings ==
    {<<"1", "0", ".", "5", "0">>, <<"-", "5", ".", "0", "0">>, <<"1", ".", "0", "0", "1">>,
     <<"2", "0", "0">>, <<"a", "b", "c">>, <<"5", "0", ".", "1", "2", "3">>,
     <<"N", "a", "N">>, <<"I", "n", "f">>, <<"-", "I", "n", "f">>, <<"1", "E", "+", "3">>}

\* the values passed as value_str: strings, and two values that are no str
VdsValues ==
    { [type |-> "str", chars |-> str] : str \in StringsUpTo(MaxStrLen) \cup TestStrings }
    \cup {[type |-> "int", chars |-> <<"1">>], [type |-> "NoneType", chars |-> <<>>]}

\* the keyword arguments of the callers: a percentage (0 to 100), a
\* non-negative value, a mass (0 to 9999.99), and a call with no limits
VdsLimits ==
    {[min_value |-> Finite(0, 0), max_value |-> Finite(100, 0), max_decimals |-> 2],
     [min_value |-> Finite(0, 0), max_value |-> None, max_decimals |-> 2],
     [min_value |-> Finite(0, 0), max_value |-> Finite(999999, 0 - 2), max_decimals |-> 2],
     [min_value |-> None, max_value |-> None, max_decimals |-> 0]}

\* a call of validate_decimal_string
ValidateDecimalString ==
    /\ ValidationIdle
    /\ \E value_str \in VdsValues, limits \in VdsLimits, required \in BOOLEAN :
          LET a == [value_str |-> value_str, min_value |-> limits.min_value,
                    max_value |-> limits.max_value, max_decimals |-> limits.max_decimals,
                    required |-> required]
          IN  /\ vds_args' = a
              /\ vds_result' = validate_decimal_string(a)
    /\ UNCHANGED notValidation

\* the caller has taken the result
TakeResult ==
    /\ ~ValidationIdle
    /\ vds_args' = NoResult
    /\ vds_result' = NoResult
    /\ UNCHANGED notValidation

InitValidation ==
    /\ table = <<>>
    /\ pc = "idle"
    /\ args = NoArgs
    /\ result = NoResult
    /\ Locals
    /\ UtilsIdle
    /\ ValidationIdle
    /\ DatabaseEmpty
    /\ PagesIdle

NextValidation ==
    \/ ValidateDecimalString
    \/ TakeResult

SpecValidation == InitValidation /\ [][NextValidation]_vars

(***************************************************************************)
(* src/src/database.py: the tables PlantCategory, Plant and                *)
(* PlantFertilizingEpisode and the operations on them.  A table is a       *)
(* function from the ids of its rows to the rows.  The connection is       *)
(* opened without the foreign_keys pragma, so SQLite enforces the UNIQUE   *)
(* indexes but no foreign key: what keeps the references is the code.      *)
(***************************************************************************)
\* bound of the model: the largest id a row is given
MaxRowId == 2

LowerCase == <<"a", "b">>

UpperCase == <<"A", "B">>

\* c.upper()
Upper(c) ==
    IF \E i \in 1..Len(LowerCase) : LowerCase[i] = c
    THEN UpperCase[CHOOSE i \in 1..Len(LowerCase) : LowerCase[i] = c]
    ELSE c

\* c.lower()
Lower(c) ==
    IF \E i \in 1..Len(UpperCase) : UpperCase[i] = c
    THEN LowerCase[CHOOSE i \in 1..Len(UpperCase) : UpperCase[i] = c]
    ELSE c

\* mutant: the name stored as it was given
AsGiven(str) == str

\* str.capitalize(): the first character in upper case, the others in lower
\* case
Capitalize(str) ==
    [i \in 1..Len(str) |-> IF i = 1 THEN Upper(str[i]) ELSE Lower(str[i])]

\* a str
Str(chars) == [type |-> "str", chars |-> chars]

\* an int
Integer(val) == [type |-> "int", val |-> val]

\* not isinstance(name, str) or not name.strip()
IsBlank(name) == name.type # "str" \/ Strip(name.chars) = <<>>

\* the names passed to the operations
NameArgs ==
    {Str(<<"a">>), Str(<<"A">>), Str(<<"a", "B">>), Str(<<" ">>),
     [type |-> "NoneType", chars |-> <<>>]}

\* the ids passed to the operations: those a row can have, one that no row
\* has, and a value that is no int
IdArgs == { Integer(i) : i \in 1..(MaxRowId + 1) } \cup {[type |-> "str", val |-> 1]}

\* the id SQLite gives to a new row (INTEGER PRIMARY KEY without
\* AUTOINCREMENT): one more than the largest id in the table
NextId(rows) ==
    IF DOMAIN rows = {} THEN 1
    ELSE (CHOOSE i \in DOMAIN rows : \A j \in DOMAIN rows : i >= j) + 1

\* Model.create(...)
Insert(rows, row) ==
    [i \in DOMAIN rows \cup {NextId(rows)} |-> IF i \in DOMAIN rows THEN rows[i] ELSE row]

\* DELETE ... WHERE id IN gone
Remove(rows, gone) == [i \in DOMAIN rows \ gone |-> rows[i]]

\* the caller holds no result of a call
DatabaseIdle == db_result = NoResult

Fail(error) == [success |-> FALSE, error |-> error]

\* the UNIQUE index on PlantCategory.name rejects the name for the row id
\* (0 for a new row)
CategoryNameTaken(name, id) ==
    \E other \in DOMAIN plant_categories \ {id} : plant_categories[other] = name

\* the UNIQUE index on Plant.name
PlantNameTaken(name, id) ==
    \E other \in DOMAIN plants \ {id} : plants[other].name = name

\* create_plant_category(name)
CreatePlantCategory(name) ==
    /\ DatabaseIdle
    /\ IF IsBlank(name)
       THEN /\ db_result' = [success |-> FALSE,
                             error |-> "category name must be a non-empty string",
                             error_code |-> "invalid_name_format"]
            /\ UNCHANGED plant_categories
       ELSE IF CategoryNameTaken(Capitalize(name.chars), 0)
       THEN /\ db_result' = [success |-> FALSE,
                             error |-> "a category with this name already exists",
                             error_code |-> "already_exists"]
            /\ UNCHANGED plant_categories
       ELSE /\ NextId(plant_categories) <= MaxRowId
            /\ plant_categories' = Insert(plant_categories, Capitalize(name.chars))
            /\ db_result' = [success |-> TRUE, category_id |-> NextId(plant_categories)]
    /\ UNCHANGED <<plants, episodes>>
    /\ UNCHANGED notDatabase

\* rename_plant_category(identifier, new_name)
RenamePlantCategory(identifier, new_name) ==
    /\ DatabaseIdle
    /\ IF identifier.type # "int"
       THEN /\ db_result' = Fail("category id must be a number")
            /\ UNCHANGED plant_categories
       ELSE IF IsBlank(new_name)
       THEN /\ db_result' = Fail("new category name must be a non-empty string")
            /\ UNCHANGED plant_categories
       ELSE IF identifier.val \notin DOMAIN plant_categories
       THEN /\ db_result' = Fail("no category with this id")
            /\ UNCHANGED plant_categories
       ELSE IF CategoryNameTaken(Capitalize(new_name.chars), identifier.val)
       THEN /\ db_result' = Fail("a category with this name already exists")
            /\ UNCHANGED plant_categories
       ELSE /\ plant_categories' =
                  [plant_categories EXCEPT ![identifier.val] = Capitalize(new_name.chars)]
            /\ db_result' = [success |-> TRUE, category_id |-> identifier.val]
    /\ UNCHANGED <<plants, episodes>>
    /\ UNCHANGED notDatabase

\* mutant: delete_instance() without recursive=True
NoDependents(rows, field, owners) == {}

\* the rows that refer, by the given field, to one of the owners: what
\* delete_instance(recursive=True) deletes before the instance
Dependents(rows, field, owners) == { i \in DOMAIN rows : rows[i][field] \in owners }

\* delete_plant_category(identifier)
DeletePlantCategory(identifier) ==
    /\ DatabaseIdle
    /\ IF identifier.type # "int"
       THEN /\ db_result' = Fail("category id must be a number")
            /\ UNCHANGED <<plant_categories, plants, episodes>>
       ELSE IF identifier.val \notin DOMAIN plant_categories
       THEN /\ db_result' = Fail("no category with this id")
            /\ UNCHANGED <<plant_categories, plants, episodes>>
       ELSE LET its_plants == Dependents(plants, "category", {identifier.val})
            IN  /\ episodes' = Remove(episodes, Dependents(episodes, "plant", its_plants))
                /\ plants' = Remove(plants, its_plants)
                /\ plant_categories' = Remove(plant_categories, {identifier.val})
                /\ db_result' = [success |-> TRUE]
    /\ UNCHANGED notDatabase

\* PlantCategory.get_by_id(category_id) finds a row
CategoryExists(category_id) == category_id \in DOMAIN plant_categories

\* create_plant(name, category_id)
CreatePlant(name, category_id) ==
    /\ DatabaseIdle
    /\ IF IsBlank(name)
       THEN /\ db_result' = Fail("plant name must be a non-empty string")
            /\ UNCHANGED plants
       ELSE IF category_id.type # "int"
       THEN /\ db_result' = Fail("wrong format of the category id")
            /\ UNCHANGED plants
       ELSE IF ~CategoryExists(category_id.val)
       THEN /\ db_result' = Fail("the category does not exist")
            /\ UNCHANGED plants
       ELSE IF PlantNameTaken(Capitalize(name.chars), 0)
       THEN /\ db_result' = Fail("a plant with this name already exists")
            /\ UNCHANGED plants
       ELSE /\ NextId(plants) <= MaxRowId
            /\ plants' = Insert(plants, [name |-> Capitalize(name.chars),
                                         category |-> category_id.val])
            /\ db_result' = [success |-> TRUE, plant_id |-> NextId(plants)]
    /\ UNCHANGED <<plant_categories, episodes>>
    /\ UNCHANGED notDatabase

\* rename_plant(identifier, new_name)
RenamePlant(identifier, new_name) ==
    /\ DatabaseIdle
    /\ IF identifier.type # "int"
       THEN /\ db_result' = Fail("plant id must be an integer")
            /\ UNCHANGED plants
       ELSE IF IsBlank(new_name)
       THEN /\ db_result' = Fail("new plant name must be a non-empty string")
            /\ UNCHANGED plants
       ELSE IF identifier.val \notin DOMAIN plants
       THEN /\ db_result' = Fail("no plant with this id")
            /\ UNCHANGED plants
       ELSE IF PlantNameTaken(Capitalize(new_name.chars), identifier.val)
       THEN /\ db_result' = Fail("a plant with this name already exists")
            /\ UNCHANGED plants
       ELSE /\ plants' = [plants EXCEPT ![identifier.val].name = Capitalize(new_name.chars)]
            /\ db_result' = [success |-> TRUE, plant_id |-> identifier.val]
    /\ UNCHANGED <<plant_categories, episodes>>
    /\ UNCHANGED notDatabase

\* delete_plant(identifier)
DeletePlant(identifier) ==
    /\ DatabaseIdle
    /\ IF identifier.type # "int"
       THEN /\ db_result' = Fail("plant id must be a number")
            /\ UNCHANGED <<plants, episodes>>
       ELSE IF identifier.val \notin DOMAIN plants
       THEN /\ db_result' = Fail("no plant with this id")
            /\ UNCHANGED <<plants, episodes>>
       ELSE /\ episodes' = Remove(episodes, Dependents(episodes, "plant", {identifier.val}))
            /\ plants' = Remove(plants, {identifier.val})
            /\ db_result' = [success |-> TRUE]
    /\ UNCHANGED plant_categories
    /\ UNCHANGED notDatabase

\* the masses passed to create_fertilizing_episode: 1.50, a float, 10000,
\* -1 and 0.001
EpisodeMasses ==
    {Finite(150, 0 - 2), [kind |-> "float"], Finite(10000, 0), Finite(0 - 1, 0),
     Finite(1, 0 - 3)}

\* the arguments of create_fertilizing_episode besides plant_id: valid ones,
\* and ones with a single fault
EpisodeArgs ==
    LET good == [nitrogen_mass |-> Finite(150, 0 - 2), phosphorus_mass |-> Finite(150, 0 - 2),
                 potassium_mass |-> Finite(150, 0 - 2),
                 magnesium_sulfate_mass |-> Finite(150, 0 - 2),
                 plant_life_stage_description |-> [type |-> "str", len |-> 10],
                 total_repetitions |-> Integer(1)]
    IN  {good}
        \cup { [good EXCEPT !.nitrogen_mass = m] : m \in EpisodeMasses }
        \cup { [good EXCEPT !.magnesium_sulfate_mass = m] : m \in EpisodeMasses }
        \cup {[good EXCEPT !.total_repetitions = Integer(0)],
              [good EXCEPT !.total_repetitions = [type |-> "str", val |-> 1]],
              [good EXCEPT !.plant_life_stage_description = [type |-> "str", len |-> 151]]}

\* the pass of the loop over the masses for one mass: the error returned, or
\* "" when the mass passes
MassFault(mass) ==
    IF mass.kind # "finite" THEN "masses must be Decimal"
    ELSE IF Less(mass, Finite(0, 0)) \/ Greater(mass, Finite(999999, 0 - 2))
    THEN "masses must be in the range from 0.00 to 9999.99"
    ELSE IF AbsExponent(mass.exp) > 2 THEN "masses must have at most two decimal places"
    ELSE ""

\* the checks of create_fertilizing_episode before the database is touched
EpisodeFault(a) ==
    LET masses == <<a.nitrogen_mass, a.phosphorus_mass, a.potassium_mass,
                    a.magnesium_sulfate_mass>>
        faulty == { i \in 1..4 : MassFault(masses[i]) # "" }
    IN  IF faulty # {}
        THEN MassFault(masses[CHOOSE i \in faulty : \A j \in faulty : i <= j])
        ELSE IF a.total_repetitions.type # "int" \/ a.total_repetitions.val < 1
        THEN "repetitions must be an integer greater than 0"
        ELSE IF /\ a.plant_life_stage_description.len > 0
                /\ \/ a.plant_life_stage_description.type # "str"
                   \/ a.plant_life_stage_description.len > 150
        THEN "the description must be a string of at most 150 characters"
        ELSE ""

\* create_fertilizing_episode(plant_id, ...)
CreateFertilizingEpisode(plant_id, a) ==
    /\ DatabaseIdle
    /\ IF plant_id.type # "int"
       THEN /\ db_result' = Fail("plant id must be an integer")
            /\ UNCHANGED episodes
       ELSE IF EpisodeFault(a) # ""
       THEN /\ db_result' = Fail(EpisodeFault(a))
            /\ UNCHANGED episodes
       ELSE IF plant_id.val \notin DOMAIN plants
       THEN /\ db_result' = Fail("no plant with this id")
            /\ UNCHANGED episodes
       ELSE /\ NextId(episodes) <= MaxRowId
            /\ episodes' = Insert(episodes,
                                  [plant |-> plant_id.val,
                                   nitrogen_mass |-> a.nitrogen_mass,
                                   phosphorus_mass |-> a.phosphorus_mass,
                                   potassium_mass |-> a.potassium_mass,
                                   magnesium_sulfate_mass |-> a.magnesium_sulfate_mass,
                                   plant_life_stage_description |->
                                       a.plant_life_stage_description.len,
                                   total_repetitions |-> a.total_repetitions.val])
            /\ db_result' = [success |-> TRUE, episode_id |-> NextId(episodes)]
    /\ UNCHANGED <<plant_categories, plants>>
    /\ UNCHANGED notDatabase

\* the caller has read the result of the call
ReadResult ==
    /\ ~DatabaseIdle
    /\ db_result' = NoResult
    /\ UNCHANGED <<plant_categories, plants, episodes>>
    /\ UNCHANGED notDatabase

\* the tables after db.create_tables(...): no plant data
InitDatabase ==
    /\ table = <<>>
    /\ pc = "idle"
    /\ args = NoArgs
    /\ result = NoResult
    /\ Locals
    /\ UtilsIdle
    /\ ValidationIdle
    /\ DatabaseEmpty
    /\ PagesIdle

NextDatabase ==
    \/ \E name \in NameArgs : CreatePlantCategory(name)
    \/ \E identifier \in IdArgs, new_name \in NameArgs :
          RenamePlantCategory(identifier, new_name)
    \/ \E identifier \in IdArgs : DeletePlantCategory(identifier)
    \/ \E name \in NameArgs, category_id \in IdArgs : CreatePlant(name, category_id)
    \/ \E identifier \in IdArgs, new_name \in NameArgs : RenamePlant(identifier, new_name)
    \/ \E identifier \in IdArgs : DeletePlant(identifier)
    \/ \E plant_id \in IdArgs, a \in EpisodeArgs : CreateFertilizingEpisode(plant_id, a)
    \/ ReadResult

SpecDatabase == InitDatabase /\ [][NextDatabase]_vars

(***************************************************************************)
(* The catalog operations: create_fertilizing_mixture of                   *)
(* src/src/database.py and the prices page of                              *)
(* src/src/pages/mixtures_prices.py.  The catalog is the variable table;   *)
(* the id of a row is its place in it (no operation deletes a row).        *)
(* Prices are in hundredths; round(x, 2) of a sum or difference of two     *)
(* prices is their sum or difference in hundredths.                        *)
(***************************************************************************)
\* bound of the model: the price up to which the increase button is pressed
MaxPrice == 5

\* the rows that initialize_db has stored, cut down to the cheapest one
\* (0.04 per gram)
SeededCatalog == <<Row("FertCheap", 1500, 1500, 1500, 4)>>

\* the value of a finite Decimal in hundredths
Hundredths(value) == Shifted(value.coef, value.exp + 2)

\* the names, percentages and prices passed to create_fertilizing_mixture
MixtureNameArgs == {Str(<<"a">>), Str(<<"A">>), Str(<<" ">>), [type |-> "NoneType", chars |-> <<>>]}

MixturePercentages ==
    {Finite(0, 0), Finite(1200, 0 - 2), Finite(9999, 0 - 2), Finite(100, 0), Finite(0 - 1, 0),
     Finite(1, 0 - 3), [kind |-> "float"]}

MixturePrices ==
    {Finite(1, 0 - 2), Finite(2, 0 - 2), Finite(0, 0), Finite(0 - 1, 0 - 2), Finite(1, 0 - 3),
     Finite(999999, 0 - 2), [kind |-> "float"]}

\* the arguments of create_fertilizing_mixture: valid ones, and ones that
\* differ from valid ones in a single argument
MixtureArgs ==
    LET good == [name |-> Str(<<"a">>), nitrogen_percentage |-> Finite(1200, 0 - 2),
                 phosphorus_percentage |-> Finite(0, 0), potassium_percentage |-> Finite(0, 0),
                 price_per_gram |-> Finite(1, 0 - 2)]
    IN  { [good EXCEPT !.name = name] : name \in MixtureNameArgs }
        \cup { [good EXCEPT !.nitrogen_percentage = v] : v \in MixturePercentages }
        \cup { [good EXCEPT !.potassium_percentage = v] : v \in MixturePercentages }
        \cup { [good EXCEPT !.price_per_gram = v] : v \in MixturePrices }

\* the first loop of create_fertilizing_mixture for one element: the error
\* returned, or "" when the element passes
ElementFault(element) ==
    IF element.kind # "finite" THEN "the data must be numeric (Decimal)"
    ELSE IF AbsExponent(element.exp) > 2
    THEN "the data must have at most two decimal places"
    ELSE ""

\* 0 < price_per_gram <= Decimal(9999.99); Decimal(9999.99) is the binary
\* float, which lies between 9999.98 and 9999.99
PriceInRange(price_per_gram) ==
    /\ Greater(price_per_gram, Finite(0, 0))
    /\ Less(price_per_gram, Finite(999999, 0 - 2))

\* the checks of create_fertilizing_mixture before the database is touched
MixtureFault(a) ==
    LET elements == <<a.nitrogen_percentage, a.phosphorus_percentage,
                      a.potassium_percentage, a.price_per_gram>>
        faulty == { i \in 1..4 : ElementFault(elements[i]) # "" }
    IN  IF IsBlank(a.name) THEN "the name must be a non-empty string"
        ELSE IF faulty # {}
        THEN ElementFault(elements[CHOOSE i \in faulty : \A j \in faulty : i <= j])
        ELSE IF \E i \in 1..3 : Less(elements[i], Finite(0, 0))
                                  \/ Greater(elements[i], Finite(9999, 0 - 2))
        THEN "percentages must be in the range from 0.00 to 99.99"
        ELSE IF ~PriceInRange(a.price_per_gram)
        THEN "the price per gram must be in the range from 0.01 to 9999.99"
        ELSE ""

\* the name of a row of the catalog, as the string stored
StoredName(chars) == IF Capitalize(chars) = <<"A">> THEN "A" ELSE "B"

\* create_fertilizing_mixture(name, ...); the page that calls it is shown
\* only while the prices page is not
CreateFertilizingMixture(a) ==
    /\ prices_page = "closed"
    /\ cfm_result = NoResult
    /\ IF MixtureFault(a) # ""
       THEN /\ cfm_result' = Fail(MixtureFault(a))
            /\ UNCHANGED table
       ELSE IF \E i \in 1..Len(table) : table[i].name = StoredName(a.name.chars)
       THEN /\ cfm_result' = Fail("a mixture with this name already exists")
            /\ UNCHANGED table
       ELSE /\ table' = Append(table, Row(StoredName(a.name.chars),
                                          Hundredths(a.nitrogen_percentage),
                                          Hundredths(a.phosphorus_percentage),
                                          Hundredths(a.potassium_percentage),
                                          Hundredths(a.price_per_gram)))
            /\ cfm_result' = [success |-> TRUE, mixture_id |-> Len(table) + 1]
    /\ UNCHANGED <<prices_page, actual_data, prices_changes_to_commit, price_fields,
                   buttons_emerged>>
    /\ UNCHANGED notCatalog

\* the caller has read the result of create_fertilizing_mixture
ReadMixtureResult ==
    /\ cfm_result # NoResult
    /\ cfm_result' = NoResult
    /\ UNCHANGED <<table, prices_page, actual_data, prices_changes_to_commit, price_fields,
                   buttons_emerged>>
    /\ UNCHANGED notCatalog

\* the value of a text field that holds a number
Number(val) == [kind |-> "number", val |-> val]

\* the value of a text field that float() does not accept ('' or '.')
Text == [kind |-> "text"]

\* a mapping without keys
EmptyDict == [i \in {} |-> 0]

\* dict[key] = value
Put(dict, key, value) ==
    [k \in DOMAIN dict \cup {key} |-> IF k = key THEN value ELSE dict[k]]

\* del dict[key]
Del(dict, key) == [k \in DOMAIN dict \ {key} |-> dict[k]]

\* load_mixtures(): actual_data and the cards from the database, no changes
LoadMixtures(rows) ==
    /\ actual_data' = [i \in 1..Len(rows) |-> rows[i].price_per_gram]
    /\ prices_changes_to_commit' = EmptyDict
    /\ price_fields' = [i \in 1..Len(rows) |-> Number(rows[i].price_per_gram)]

\* MixturesPricesPage(page): the page is constructed and shown
OpenPricesPage ==
    /\ prices_page = "closed"
    /\ cfm_result = NoResult
    /\ prices_page' = "shown"
    /\ LoadMixtures(table)
    /\ buttons_emerged' = FALSE
    /\ UNCHANGED <<table, cfm_result>>
    /\ UNCHANGED notCatalog

\* the user leaves the page (prevent_leaving, and abandon_inputs_and_leave
\* when there are changes): the page object is dropped
LeavePricesPage ==
    /\ prices_page = "shown"
    /\ prices_page' = "closed"
    /\ actual_data' = EmptyDict
    /\ prices_changes_to_commit' = EmptyDict
    /\ price_fields' = EmptyDict
    /\ buttons_emerged' = FALSE
    /\ UNCHANGED <<table, cfm_result>>
    /\ UNCHANGED notCatalog

\* the part of increase_price and decrease_price after the field is set: the
\* change of mixture_id moves by `by`, an entry that becomes 0 is deleted
MovePriceDelta(mixture_id, by) ==
    IF mixture_id \in DOMAIN prices_changes_to_commit
    THEN LET new_price_delta == prices_changes_to_commit[mixture_id] + by
         IN  IF new_price_delta = 0
             THEN /\ prices_changes_to_commit' = Del(prices_changes_to_commit, mixture_id)
                  /\ buttons_emerged' =
                       IF DOMAIN prices_changes_to_commit = {mixture_id}
                       THEN FALSE ELSE buttons_emerged
             ELSE /\ prices_changes_to_commit' =
                       Put(prices_changes_to_commit, mixture_id, new_price_delta)
                  /\ buttons_emerged' = TRUE
    ELSE /\ prices_changes_to_commit' = Put(prices_changes_to_commit, mixture_id, by)
         /\ buttons_emerged' = TRUE

\* increase_price(e, mixture_id=...)
IncreasePrice(mixture_id) ==
    /\ prices_page = "shown"
    /\ mixture_id \in DOMAIN price_fields
    /\ IF price_fields[mixture_id].kind # "number"
       THEN UNCHANGED <<price_fields, prices_changes_to_commit, buttons_emerged>>
       ELSE /\ price_fields[mixture_id].val < MaxPrice
            /\ price_fields' =
                 [price_fields EXCEPT ![mixture_id] = Number(price_fields[mixture_id].val + 1)]
            /\ MovePriceDelta(mixture_id, 1)
    /\ UNCHANGED <<table, prices_page, actual_data, cfm_result>>
    /\ UNCHANGED notCatalog

\* decreased_price < 0
BelowFloor(decreased_price) == decreased_price < 0

\* decrease_price(e, mixture_id=...)
DecreasePrice(mixture_id) ==
    /\ prices_page = "shown"
    /\ mixture_id \in DOMAIN price_fields
    /\ IF price_fields[mixture_id].kind # "number"
       THEN UNCHANGED <<price_fields, prices_changes_to_commit, buttons_emerged>>
       ELSE IF BelowFloor(price_fields[mixture_id].val - 1)
       THEN UNCHANGED <<price_fields, prices_changes_to_commit, buttons_emerged>>
       ELSE /\ price_fields' =
                 [price_fields EXCEPT ![mixture_id] = Number(price_fields[mixture_id].val - 1)]
            /\ MovePriceDelta(mixture_id, 0 - 1)
    /\ UNCHANGED <<table, prices_page, actual_data, cfm_result>>
    /\ UNCHANGED notCatalog

\* the loop of manually_change_price over the characters from place i on:
\* the digits before the point, the first point, and two digits after it
RECURSIVE CleanFrom(_, _, _, _)
CleanFrom(old_value, i, point_encountered, decimal_part_length) ==
    IF i > Len(old_value) THEN <<>>
    ELSE LET char == old_value[i]
         IN  IF IsDigit(char)
             THEN IF ~point_encountered
                  THEN <<char>> \o CleanFrom(old_value, i + 1, FALSE, 0)
                  ELSE IF decimal_part_length < 2
                  THEN <<char>> \o CleanFrom(old_value, i + 1, TRUE, decimal_part_length + 1)
                  ELSE CleanFrom(old_value, i + 1, TRUE, decimal_part_length)
             ELSE IF char \in {".", ","} /\ ~point_encountered
             THEN <<".">> \o CleanFrom(old_value, i + 1, TRUE, 0)
             ELSE CleanFrom(old_value, i + 1, point_encountered, decimal_part_length)

\* float(clean_value_str) of a cleaned string with a digit, in hundredths
CleanValue(clean_value_str) ==
    LET dot == Find(clean_value_str, ".")
        int == IF dot = 0 THEN clean_value_str ELSE SubSeq(clean_value_str, 1, dot - 1)
        frac == IF dot = 0 THEN <<>>
                ELSE SubSeq(clean_value_str, dot + 1, Len(clean_value_str))
    IN  100 * ToInt(int) + ToInt(frac) * Pow10(2 - Len(frac))

\* what the user leaves in a price field
TypedPrices ==
    {<<>>, <<".">>, <<"x">>, <<"0">>, <<"0", ".", "0", "2">>, <<"0", ",", "0", "1">>,
     <<"-", ".", "0", "1">>, <<"0", ".", "0", "3", "9">>, <<".", "0", ".", "2">>}

\* manually_change_price(e, mixture_id=...)
ManuallyChangePrice(mixture_id, old_value) ==
    /\ prices_page = "shown"
    /\ mixture_id \in DOMAIN price_fields
    /\ LET clean_value_str == CleanFrom(old_value, 1, FALSE, 0)
           digit_encountered == \E i \in 1..Len(old_value) : IsDigit(old_value[i])
       IN  IF ~digit_encountered
           THEN /\ price_fields' = [price_fields EXCEPT ![mixture_id] = Text]
                /\ UNCHANGED <<prices_changes_to_commit, buttons_emerged>>
           ELSE LET clean_value == CleanValue(clean_value_str)
                    price_delta == clean_value - actual_data[mixture_id]
                    price_was_changed_before == mixture_id \in DOMAIN prices_changes_to_commit
                IN  /\ price_fields' = [price_fields EXCEPT ![mixture_id] = Number(clean_value)]
                    /\ IF price_delta = 0 /\ price_was_changed_before
                       THEN /\ prices_changes_to_commit' =
                                 Del(prices_changes_to_commit, mixture_id)
                            /\ buttons_emerged' =
                                 IF DOMAIN prices_changes_to_commit = {mixture_id}
                                 THEN FALSE ELSE buttons_emerged
                       ELSE IF price_delta # 0
                       THEN /\ prices_changes_to_commit' =
                                 Put(prices_changes_to_commit, mixture_id, price_delta)
                            /\ buttons_emerged' = TRUE
                       ELSE UNCHANGED <<prices_changes_to_commit, buttons_emerged>>
    /\ UNCHANGED <<table, prices_page, actual_data, cfm_result>>
    /\ UNCHANGED notCatalog

\* the price save_changes writes for a row
SavedPrice(mixture_id, row) ==
    IF mixture_id \in DOMAIN prices_changes_to_commit
    THEN actual_data[mixture_id] + prices_changes_to_commit[mixture_id]
    ELSE row.price_per_gram

\* save_changes(e): the button is there while buttons_emerged
SaveChanges ==
    /\ prices_page = "shown"
    /\ buttons_emerged
    /\ table' = [i \in 1..Len(table) |->
                   [table[i] EXCEPT !.price_per_gram = SavedPrice(i, table[i])]]
    /\ buttons_emerged' = FALSE
    /\ LoadMixtures(table')
    /\ UNCHANGED <<prices_page, cfm_result>>
    /\ UNCHANGED notCatalog

\* discard_changes(e)
DiscardChanges ==
    /\ prices_page = "shown"
    /\ buttons_emerged
    /\ buttons_emerged' = FALSE
    /\ LoadMixtures(table)
    /\ UNCHANGED <<table, prices_page, cfm_result>>
    /\ UNCHANGED notCatalog

InitCatalog ==
    /\ table = SeededCatalog
    /\ pc = "idle"
    /\ args = NoArgs
    /\ result = NoResult
    /\ Locals
    /\ UtilsIdle
    /\ ValidationIdle
    /\ DatabaseEmpty
    /\ PagesIdle

NextCatalog ==
    \/ \E a \in MixtureArgs : CreateFertilizingMixture(a)
    \/ ReadMixtureResult
    \/ OpenPricesPage
    \/ LeavePricesPage
    \/ \E mixture_id \in 1..Len(table) : IncreasePrice(mixture_id)
    \/ \E mixture_id \in 1..Len(table) : DecreasePrice(mixture_id)
    \/ \E mixture_id \in 1..Len(table), old_value \in TypedPrices :
          ManuallyChangePrice(mixture_id, old_value)
    \/ SaveChanges
    \/ DiscardChanges

SpecCatalog == InitCatalog /\ [][NextCatalog]_vars

(***************************************************************************)
(* Navigation (src/src/app.py, main.on_navigate) and the calculation task  *)
(* of the home page (src/src/pages/home.py,                                *)
(* prepare_and_display_mixture_data).                                      *)
(*                                                                         *)
(* Threads.  The handler of an episode card calls page.run_task, which     *)
(* hands the coroutine to the event loop: the coroutine starts later.  It  *)
(* runs without a suspension point up to its await, where the calculation  *)
(* runs on a worker thread, and again from the end of the calculation to   *)
(* its own end.  on_navigate is a synchronous handler of the menu; it is   *)
(* taken as one step here, as are the two parts of the coroutine.          *)
(*                                                                         *)
(* Every page object ever constructed keeps its place in page_objects; a   *)
(* reference to an object is its position.                                 *)
(***************************************************************************)
\* how many page objects are constructed after the first home page
MaxPageObjects == 3

\* how many calculation tasks are started
MaxTasks == 2

\* NewCategoryPage.__init__: not ready to leave, the name field empty, the
\* leaving dialog closed
NewCategoryPage == [route |-> "category", ready_to_leave |-> FALSE, view |-> "empty",
                    leaving_to |-> "none"]

\* FullReportPage.__init__: ready to leave
FullReportPage == [route |-> "general_report", ready_to_leave |-> TRUE, view |-> "form",
                   leaving_to |-> "none"]

\* routing.py: three of the eight routes, one page of each kind: the home
\* page, a page with prevent_leaving that is constructed not ready to leave,
\* and a page without prevent_leaving that is constructed ready to leave
ROUTES == [r \in {"home", "category", "general_report"} |->
             CASE r = "home" -> HomePage
               [] r = "category" -> NewCategoryPage
               [] r = "general_report" -> FullReportPage]

\* the routes the items of the navigation menu pass to on_navigate
MenuRoutes == {"home", "category", "general_report"}

\* hasattr(current_page_object, 'prevent_leaving')
HasPreventLeaving(page_object) == page_object.route = "category"

\* the text shown for an unknown route
NotFound == [kind |-> "Text", value |-> "404: Page not found"]

\* the progress ring that a task appends to page.overlay
ProgressRing(t) == [kind |-> "ProgressRing", task |-> t]

\* on_navigate, lines 55-62: a new page object is constructed, becomes the
\* current one and its layout the content
OpenPage(objects, route_name) ==
    /\ page_objects' = Append(objects, ROUTES[route_name])
    /\ current_page_object' = Ref(Len(objects) + 1)
    /\ content_container' = Ref(Len(objects) + 1)

\* the current page object
Current == page_objects[current_page_object.id]

\* the page passes the ready_to_leave test of on_navigate (lines 45-47)
MayLeave == current_page_object = None \/ Current.ready_to_leave

Released(objects, p) == [objects EXCEPT ![p].ready_to_leave = TRUE,
                                        ![p].leaving_to = "none"]

\* on_navigate(route_name); prevent_leaving of a page with an empty field
\* sets ready_to_leave and calls on_navigate again, which then opens the page
on_navigate(route_name) ==
    /\ overlay' = <<>>
    /\ IF route_name \notin DOMAIN ROUTES
       THEN /\ current_page_object' = None
            /\ content_container' = NotFound
            /\ UNCHANGED page_objects
       ELSE IF MayLeave
       THEN OpenPage(page_objects, route_name)
       ELSE IF ~HasPreventLeaving(Current)
       THEN UNCHANGED <<page_objects, current_page_object, content_container>>
       ELSE IF Current.view = "empty"
       THEN OpenPage(Released(page_objects, current_page_object.id), route_name)
       ELSE /\ page_objects' = [page_objects EXCEPT
                                  ![current_page_object.id].leaving_to = route_name]
            /\ UNCHANGED <<current_page_object, content_container>>

\* a modal dialog covers the window: the menu cannot be clicked
ModalOpen == \E p \in 1..Len(page_objects) : page_objects[p].leaving_to # "none"

\* the user clicks an item of the navigation menu
Navigate(route_name) ==
    /\ ~ModalOpen
    /\ Len(page_objects) < 1 + MaxPageObjects
    /\ on_navigate(route_name)
    /\ UNCHANGED tasks
    /\ UNCHANGED notNavigation

\* the user types a name into the field of the new-category page
TypeCategoryName ==
    /\ current_page_object # None
    /\ Current.route = "category"
    /\ Current.view = "empty"
    /\ ~ModalOpen
    /\ page_objects' = [page_objects EXCEPT ![current_page_object.id].view = "filled"]
    /\ UNCHANGED <<current_page_object, content_container, overlay, tasks>>
    /\ UNCHANGED notNavigation

\* NewCategoryPage.abandon_input_and_leave: 'yes' in the leaving dialog
AbandonInputAndLeave ==
    /\ current_page_object # None
    /\ Current.leaving_to # "none"
    /\ Len(page_objects) < 1 + MaxPageObjects
    /\ overlay' = <<>>
    /\ OpenPage(Released(page_objects, current_page_object.id), Current.leaving_to)
    /\ UNCHANGED tasks
    /\ UNCHANGED notNavigation

\* NewCategoryPage.close_leaving_dialog: 'no' in the leaving dialog
CloseLeavingDialog ==
    /\ current_page_object # None
    /\ Current.leaving_to # "none"
    /\ page_objects' = [page_objects EXCEPT ![current_page_object.id].leaving_to = "none"]
    /\ UNCHANGED <<current_page_object, content_container, overlay, tasks>>
    /\ UNCHANGED notNavigation

\* the home page is on the screen and shows the given list
HomeShows(view) ==
    /\ current_page_object # None
    /\ Current.route = "home"
    /\ Current.view = view

SetView(view) ==
    /\ page_objects' = [page_objects EXCEPT ![current_page_object.id].view = view]
    /\ UNCHANGED <<current_page_object, content_container, overlay, tasks>>
    /\ UNCHANGED notNavigation

\* HomePage.load_plants_for_category: a category card is clicked, or the
\* back button above the episodes
LoadPlantsForCategory ==
    /\ HomeShows("categories") \/ HomeShows("episodes")
    /\ SetView("plants")

\* HomePage.load_episodes_for_plant: a plant card is clicked, or the back
\* button above a calculated mixture (the target that the end of the task
\* gives it)
LoadEpisodesForPlant ==
    /\ \/ HomeShows("plants")
       \/ HomeShows("mixture")
       \/ /\ HomeShows("progress")
          /\ Current.ready_to_leave
    /\ SetView("episodes")

\* HomePage.load_categories: the back button above the plants
LoadCategories ==
    /\ HomeShows("plants")
    /\ SetView("categories")

\* the on_click of an episode card: page.run_task hands the coroutine to
\* the event loop
ClickEpisode ==
    /\ HomeShows("episodes")
    /\ Len(tasks) < MaxTasks
    /\ tasks' = Append(tasks, [page |-> current_page_object.id, pc |-> "scheduled",
                               popped |-> NoResult])
    /\ UNCHANGED <<page_objects, current_page_object, content_container, overlay>>
    /\ UNCHANGED notNavigation

\* prepare_and_display_mixture_data up to its await: the list is cleared,
\* the progress ring appended, ready_to_leave cleared, the worker started
TaskBegin(t) ==
    /\ tasks[t].pc = "scheduled"
    /\ overlay' = Append(overlay, ProgressRing(t))
    /\ page_objects' = [page_objects EXCEPT ![tasks[t].page].view = "progress",
                                            ![tasks[t].page].ready_to_leave = FALSE]
    /\ tasks' = [tasks EXCEPT ![t].pc = "calculating"]
    /\ UNCHANGED <<current_page_object, content_container>>
    /\ UNCHANGED notNavigation

\* _obtain_mixture_data_and_layout returns on the worker thread: the list
\* holds the mixture (or the error text of an unsuccessful result)
WorkerReturns(t) ==
    /\ tasks[t].pc = "calculating"
    /\ page_objects' = [page_objects EXCEPT ![tasks[t].page].view = "mixture"]
    /\ tasks' = [tasks EXCEPT ![t].pc = "returned"]
    /\ UNCHANGED <<current_page_object, content_container, overlay>>
    /\ UNCHANGED notNavigation

\* _obtain_mixture_data_and_layout raises on the worker thread (for one,
\* calculate_best_mixture for an episode of magnesium sulfate alone, whose
\* total mass is 0)
WorkerRaises(t) ==
    /\ tasks[t].pc = "calculating"
    /\ tasks' = [tasks EXCEPT ![t].pc = "raised"]
    /\ UNCHANGED <<page_objects, current_page_object, content_container, overlay>>
    /\ UNCHANGED notNavigation

\* the finally block of prepare_and_display_mixture_data: ready_to_leave is
\* set, the back button shown, page.overlay.pop() called; pop() of an empty
\* list raises IndexError and the block ends there
TaskComplete(t) ==
    /\ tasks[t].pc \in {"returned", "raised"}
    /\ page_objects' = [page_objects EXCEPT ![tasks[t].page].ready_to_leave = TRUE]
    /\ IF overlay = <<>>
       THEN /\ tasks' = [tasks EXCEPT ![t].pc = "IndexError"]
            /\ UNCHANGED overlay
       ELSE /\ tasks' = [tasks EXCEPT ![t].pc = "done",
                                      ![t].popped = overlay[Len(overlay)]]
            /\ overlay' = SubSeq(overlay, 1, Len(overlay) - 1)
    /\ UNCHANGED <<current_page_object, content_container>>
    /\ UNCHANGED notNavigation

InitNavigation ==
    /\ table = SeededCatalog
    /\ pc = "idle"
    /\ args = NoArgs
    /\ result = NoResult
    /\ Locals
    /\ UtilsIdle
    /\ ValidationIdle
    /\ DatabaseEmpty
    /\ PagesIdle

NextNavigation ==
    \/ \E route_name \in MenuRoutes : Navigate(route_name)
    \/ TypeCategoryName
    \/ AbandonInputAndLeave
    \/ CloseLeavingDialog
    \/ LoadPlantsForCategory
    \/ LoadEpisodesForPlant
    \/ LoadCategories
    \/ ClickEpisode
    \/ \E t \in 1..Len(tasks) : TaskBegin(t)
    \/ \E t \in 1..Len(tasks) : WorkerReturns(t)
    \/ \E t \in 1..Len(tasks) : WorkerRaises(t)
    \/ \E t \in 1..Len(tasks) : TaskComplete(t)

SpecNavigation == InitNavigation /\ [][NextNavigation]_vars

(***************************************************************************)
(* The JSON import (src/src/pages/json_db_import.py).                      *)
(*                                                                         *)
(* _import_data_from_db_dump is a coroutine: it runs on the event loop     *)
(* from one await to the next.  The model follows it in steps, one per     *)
(* record of the dump, and stops it at every await of a future; the        *)
(* buttons of the warning dialog are handlers that set the result of the   *)
(* future the dialog was opened with.                                      *)
(*                                                                         *)
(* The dump.  A JSON object is the sequence of its items in file order, a  *)
(* key a sequence of characters; a value carries its JSON type.  An        *)
(* episode or the content of a mixture carries the fault the validation    *)
(* finds in it ("" for none) and the one field the model tells records     *)
(* apart by; its other fields are those of the seeded rows.                *)
(*                                                                         *)
(* Transactions.  db.atomic() is a transaction at the outer level and a    *)
(* savepoint inside it; the model keeps the tables as they were when each  *)
(* began, and rollback() puts them back.  Leaving the outer block commits, *)
(* leaving it by an exception rolls back.                                  *)
(***************************************************************************)
Dict(items) == [type |-> "dict", items |-> items]

List(items) == [type |-> "list", items |-> items]

\* a JSON value that is neither an object nor an array
Scalar == [type |-> "str", items |-> <<>>]

Entry(key, value) == [key |-> key, value |-> value]

\* an episode of the dump
DumpEpisode(fault, nitrogen_mass) == [fault |-> fault, nitrogen_mass |-> nitrogen_mass]

\* the content of a mixture of the dump
DumpMixture(fault, price_per_gram) ==
    [type |-> "dict", fault |-> fault, price_per_gram |-> price_per_gram]

\* the row PlantFertilizingEpisode.create(...) stores for an episode
EpisodeRow(plant_id, episode) ==
    [plant |-> plant_id,
     nitrogen_mass |-> episode.nitrogen_mass,
     phosphorus_mass |-> Finite(150, 0 - 2),
     potassium_mass |-> Finite(150, 0 - 2),
     magnesium_sulfate_mass |-> Finite(150, 0 - 2),
     plant_life_stage_description |-> 10,
     total_repetitions |-> 1]

\* the values a plant of the dump can have: a list of episodes (valid, empty,
\* with an invalid episode first or last), or something that is no list
PlantValues ==
    {List(<<DumpEpisode("", Finite(200, 0 - 2))>>),
     List(<<>>),
     List(<<DumpEpisode("mass", Finite(200, 0 - 2))>>),
     List(<<DumpEpisode("", Finite(200, 0 - 2)), DumpEpisode("not a mapping", Finite(0, 0))>>),
     Scalar}

\* a plant of the dump with one valid episode
GoodPlant(key) == Entry(key, List(<<DumpEpisode("", Finite(200, 0 - 2))>>))

\* the values a category of the dump can have: something that is no
\* mapping, or a mapping with no plant, with one plant (of any value, or with
\* a blank name), or with such a plant followed by a good one
CategoryValues ==
    {Dict(<<>>), Scalar, Dict(<<Entry(<<" ">>, Scalar)>>),
     Dict(<<Entry(<<" ">>, Scalar), GoodPlant(<<"b">>)>>)}
        \cup { Dict(<<Entry(<<"a">>, value)>>) : value \in PlantValues }
        \cup { Dict(<<Entry(<<"a">>, value), GoodPlant(<<"b">>)>>) : value \in PlantValues }

\* plants_related_data: nothing, a category with a blank name, one category,
\* or a category of one plant followed by a good category
PlantsRelatedData ==
    {<<>>, <<Entry(<<" ">>, Scalar)>>}
        \cup { <<Entry(key, value)>> : key \in {<<"a">>, <<"b">>}, value \in CategoryValues }
        \cup { <<Entry(<<"a">>, Dict(<<Entry(<<"a">>, value)>>)),
                 Entry(<<"b">>, Dict(<<GoodPlant(<<"b">>)>>))>> : value \in PlantValues }

\* the mixtures of the dump under the name of the stored mixture: with the
\* stored price, with another price, with a fault, no mapping; or under a
\* blank name
StoredMixtureEntries ==
    {Entry(<<"a">>, DumpMixture("", 4)), Entry(<<"a">>, DumpMixture("", 5)),
     Entry(<<"a">>, DumpMixture("missing fields", 5)),
     Entry(<<"a">>, DumpMixture("bad value", 5)),
     Entry(<<"a">>, Scalar), Entry(<<" ">>, Scalar)}

\* the mixtures of the dump under a new name
NewMixtureEntries ==
    {Entry(<<"a", "B">>, DumpMixture("", 5)),
     Entry(<<"a", "B">>, DumpMixture("missing fields", 5)),
     Entry(<<"a", "B">>, Scalar)}

\* mixtures_related_data: nothing, one mixture, or two under different keys
MixturesRelatedData ==
    {<<>>}
        \cup { <<m>> : m \in StoredMixtureEntries \cup NewMixtureEntries }
        \cup { <<m, n>> : m \in StoredMixtureEntries, n \in NewMixtureEntries }

\* the files the user can pick: any plants with no mixture or one new
\* mixture, and any mixtures with no plant or one good plant
Dumps ==
    { [plants_related_data |-> p, mixtures_related_data |-> m] :
        p \in PlantsRelatedData,
        m \in {<<>>, <<Entry(<<"a", "B">>, DumpMixture("", 5))>>,
                <<Entry(<<"a", "B">>, Scalar)>>} }
    \cup
    { [plants_related_data |-> p, mixtures_related_data |-> m] :
        p \in {<<>>, <<Entry(<<"a">>, Dict(<<GoodPlant(<<"a">>)>>))>>},
        m \in MixturesRelatedData }

\* the four tables
Tables ==
    [plant_categories |-> plant_categories, plants |-> plants, episodes |-> episodes,
     table |-> table]

\* the coroutine and what it works on
Here ==
    [pc |-> import_pc, locals |-> import_locals, db |-> Tables, futures |-> futures,
     dialog |-> warning_dialog, result |-> import_result, tx |-> transactions,
     error_dialog |-> import_page.error_dialog]

\* the coroutine has run up to s
Becomes(s) ==
    /\ import_pc' = s.pc
    /\ import_locals' = s.locals
    /\ plant_categories' = s.db.plant_categories
    /\ plants' = s.db.plants
    /\ episodes' = s.db.episodes
    /\ table' = s.db.table
    /\ futures' = s.futures
    /\ warning_dialog' = s.dialog
    /\ import_result' = s.result
    /\ transactions' = s.tx
    /\ import_page' = [import_page EXCEPT !.error_dialog = s.error_dialog]
    /\ UNCHANGED dump
    /\ UNCHANGED notImport

\* user_input_future = asyncio.Future(); a dialog is opened with it;
\* user_choice = await user_input_future
Prompt(s, buttons, site) ==
    [s EXCEPT !.futures = Append(@, "pending"),
              !.locals.user_input_future = Len(s.futures) + 1,
              !.locals.site = site,
              !.dialog = [open |-> TRUE, buttons |-> buttons, future |-> Len(s.futures) + 1,
                          error |-> ""],
              !.pc = "await"]

\* an exception leaves the outer atomic() block: the transaction is rolled
\* back and the coroutine ends with the exception
Crash(s, exception) ==
    [s EXCEPT !.db = s.tx.main, !.pc = "raised", !.result = Raise(exception, "", "")]

\* lines 596-598 and 612-614: the dialog is opened with the name
\* user_input_future as it is, and that is awaited: the future of the last
\* prompt, or no future at all (UnboundLocalError)
PromptAgain(s, buttons, site) ==
    IF s.locals.user_input_future = 0 THEN Crash(s, "UnboundLocalError")
    ELSE [s EXCEPT !.locals.site = site,
                   !.dialog = [open |-> TRUE, buttons |-> buttons,
                               future |-> s.locals.user_input_future, error |-> ""],
                   !.pc = "await"]

\* main_transaction.rollback()
Rollback(s) == [s EXCEPT !.db = s.tx.main]

\* return {'success': ...}
ReturnWith(s, success) == [s EXCEPT !.pc = "returned", !.result = [success |-> success]]

\* continue in the loop over the plants
NextPlant(s) == [s EXCEPT !.locals.pi = @ + 1, !.pc = "plant"]

\* continue in the loop over the categories
NextCategory(s) == [s EXCEPT !.locals.ci = @ + 1, !.pc = "category"]

\* continue in the loop over the mixtures
NextMixture(s) == [s EXCEPT !.locals.mi = @ + 1, !.pc = "mixture"]

\* handle_erasure_checkbox
HandleErasureCheckbox ==
    /\ import_pc = "idle"
    /\ ~warning_dialog.open
    /\ IF import_page.db_erasure_confirmed
       THEN /\ import_page' = [import_page EXCEPT !.db_erasure_confirmed = FALSE]
            /\ UNCHANGED warning_dialog
       ELSE /\ warning_dialog' = [open |-> TRUE, buttons |-> "erase or keep", future |-> 0,
                                  error |-> ""]
            /\ UNCHANGED import_page
    /\ UNCHANGED <<dump, import_pc, import_locals, futures, import_result, transactions>>
    /\ UNCHANGED <<table, databaseVars>>
    /\ UNCHANGED notImport

\* confirm_db_erasure
ConfirmDbErasure ==
    /\ warning_dialog.open
    /\ warning_dialog.buttons = "erase or keep"
    /\ import_page' = [import_page EXCEPT !.db_erasure_confirmed = TRUE]
    /\ warning_dialog' = ClosedDialog
    /\ UNCHANGED <<dump, import_pc, import_locals, futures, import_result, transactions>>
    /\ UNCHANGED <<table, databaseVars>>
    /\ UNCHANGED notImport

\* decline_db_erasure
DeclineDbErasure ==
    /\ warning_dialog.open
    /\ warning_dialog.buttons = "erase or keep"
    /\ import_page' = [import_page EXCEPT !.db_erasure_confirmed = FALSE]
    /\ warning_dialog' = ClosedDialog
    /\ UNCHANGED <<dump, import_pc, import_locals, futures, import_result, transactions>>
    /\ UNCHANGED <<table, databaseVars>>
    /\ UNCHANGED notImport

\* wrap_db_import with the picked file holding d, and the coroutine up to
\* the main transaction (lines 194-256)
WrapDbImport(d) ==
    /\ import_pc = "idle"
    /\ ~warning_dialog.open
    /\ dump' = d
    /\ LET s == Here
       IN  /\ import_pc' = IF d.plants_related_data = <<>> /\ d.mixtures_related_data = <<>>
                           THEN "returned"
                           ELSE IF d.mixtures_related_data = <<>>
                                   /\ import_page.db_erasure_confirmed
                           THEN "await" ELSE "begin"
           /\ import_result' = IF import_pc' = "returned" THEN [success |-> FALSE]
                               ELSE NoResult
           /\ import_locals' = IF import_pc' = "await"
                               THEN Prompt(s, "continue or cancel", "empty mixtures").locals
                               ELSE FreshLocals
           /\ futures' = IF import_pc' = "await"
                         THEN Prompt(s, "continue or cancel", "empty mixtures").futures
                         ELSE futures
           /\ warning_dialog' = IF import_pc' = "await"
                                THEN Prompt(s, "continue or cancel", "empty mixtures").dialog
                                ELSE warning_dialog
           /\ import_page' = [import_page EXCEPT
                                !.ready_to_leave = FALSE,
                                !.view = "loading",
                                !.error_dialog = IF import_pc' = "returned"
                                                 THEN "the dump is empty" ELSE @]
    /\ UNCHANGED transactions
    /\ UNCHANGED <<table, databaseVars>>
    /\ UNCHANGED notImport

\* with db.atomic() as main_transaction, and the erasure (lines 258-275)
BeginTransaction ==
    /\ import_pc = "begin"
    /\ LET s == [Here EXCEPT !.tx.main = Tables]
       IN  Becomes([s EXCEPT
                      !.db = IF import_page.db_erasure_confirmed
                             THEN [plant_categories |-> EmptyTable, plants |-> EmptyTable,
                                   episodes |-> EmptyTable, table |-> <<>>]
                             ELSE @,
                      !.pc = "category"])

\* the body of the loop over the categories up to the loop over its plants
\* (lines 277-335)
CategoryStep ==
    /\ import_pc = "category"
    /\ LET s == Here
           L == import_locals
           categories == dump.plants_related_data
       IN  Becomes(
             IF L.ci > Len(categories) THEN [s EXCEPT !.pc = "mixture"]
             ELSE LET category == categories[L.ci]
                      category_name == Capitalize(Strip(category.key))
                      found == { i \in DOMAIN plant_categories :
                                   plant_categories[i] = category_name }
                      category_created == found = {}
                      got == [s EXCEPT
                                !.db.plant_categories =
                                    IF category_created THEN Insert(@, category_name) ELSE @,
                                !.locals.category_id =
                                    IF category_created THEN NextId(plant_categories)
                                    ELSE CHOOSE i \in found : TRUE,
                                !.locals.at_least_one_category_created = @ \/ category_created]
                  IN  IF IsBlank(Str(category.key))
                      THEN Prompt(s, "skip or cancel", "category")
                      ELSE IF category.value.type # "dict"
                      THEN Prompt(got, "skip or cancel", "category")
                      ELSE [got EXCEPT !.locals.main_transaction_to_be_terminated = FALSE,
                                       !.locals.pi = 1,
                                       !.pc = "plant"])

\* the plants of the category the loop is in
PlantsOfCategory == dump.plants_related_data[import_locals.ci].value.items

\* the body of the loop over the plants up to the test of the episodes
\* (lines 337-398)
PlantStep ==
    /\ import_pc = "plant"
    /\ LET s == Here
           L == import_locals
       IN  Becomes(
             IF L.pi > Len(PlantsOfCategory) THEN NextCategory(s)
             ELSE IF L.main_transaction_to_be_terminated THEN ReturnWith(Rollback(s), FALSE)
             ELSE LET plant == PlantsOfCategory[L.pi]
                      plant_name == Capitalize(Strip(plant.key))
                      found == { i \in DOMAIN plants :
                                   /\ plants[i].name = plant_name
                                   /\ plants[i].category = L.category_id }
                      taken == \E i \in DOMAIN plants : plants[i].name = plant_name
                      began == [s EXCEPT !.tx.plant = Tables,
                                         !.locals.plant_related_transaction_failed = FALSE]
                      got == [began EXCEPT !.locals.plant_id = CHOOSE i \in found : TRUE,
                                           !.locals.plant_created = FALSE]
                  IN  IF IsBlank(Str(plant.key))
                      THEN Prompt(s, "skip or cancel", "plant name")
                      ELSE IF found = {} /\ taken
                      THEN Prompt(began, "skip or cancel", "plant")
                      ELSE IF found = {}
                      THEN [began EXCEPT
                              !.db.plants = Insert(@, [name |-> plant_name,
                                                       category |-> L.category_id]),
                              !.locals.plant_id = NextId(plants),
                              !.locals.plant_created = TRUE,
                              !.pc = "episodes"]
                      ELSE IF import_page.db_overwriting_confirmed = "None"
                      THEN Prompt(got, "overwrite or leave", "plant conflict")
                      ELSE IF import_page.db_overwriting_confirmed = "False"
                      THEN NextPlant(got)
                      ELSE [got EXCEPT !.pc = "episodes"])

\* the test of the episodes of the plant and the deletion of the stored
\* ones (lines 400-417)
EpisodesStep ==
    /\ import_pc = "episodes"
    /\ LET s == Here
           L == import_locals
           related_fertilizing_episodes == PlantsOfCategory[L.pi].value
       IN  Becomes(
             IF related_fertilizing_episodes.type # "list"
                \/ related_fertilizing_episodes.items = <<>>
             THEN Prompt(s, "skip or cancel", "plant")
             ELSE [s EXCEPT
                     !.db.episodes = IF L.plant_created THEN @
                                     ELSE Remove(@, Dependents(@, "plant", {L.plant_id})),
                     !.locals.ei = 1,
                     !.pc = "episode"])

\* the body of the loop over the episodes (lines 419-565): every fault of an
\* episode opens the same prompt
EpisodeStep ==
    /\ import_pc = "episode"
    /\ LET s == Here
           L == import_locals
           related_fertilizing_episodes == PlantsOfCategory[L.pi].value.items
       IN  Becomes(
             IF L.ei > Len(related_fertilizing_episodes) THEN [s EXCEPT !.pc = "plant end"]
             ELSE IF related_fertilizing_episodes[L.ei].fault # ""
             THEN Prompt(s, "skip or cancel", "episode")
             ELSE [s EXCEPT
                     !.db.episodes = Insert(@, EpisodeRow(L.plant_id,
                                                          related_fertilizing_episodes[L.ei])),
                     !.locals.ei = @ + 1])

\* the end of the body of the loop over the plants (lines 567-572)
PlantEndStep ==
    /\ import_pc = "plant end"
    /\ LET s == Here
           L == import_locals
       IN  Becomes(
             IF L.main_transaction_to_be_terminated THEN ReturnWith(Rollback(s), FALSE)
             ELSE NextPlant([s EXCEPT
                               !.locals.there_was_successful_plant_related_transaction =
                                   @ \/ ~L.plant_related_transaction_failed]))

\* the mixture the loop is at
MixtureOfDump == dump.mixtures_related_data[import_locals.mi]

\* the body of the loop over the mixtures up to the test of the content
\* (lines 574-606)
MixtureStep ==
    /\ import_pc = "mixture"
    /\ LET s == Here
           L == import_locals
       IN  Becomes(
             IF L.mi > Len(dump.mixtures_related_data) THEN [s EXCEPT !.pc = "finish"]
             ELSE IF IsBlank(Str(MixtureOfDump.key))
             THEN Prompt(s, "skip or cancel", "mixture")
             ELSE IF MixtureOfDump.value.type # "dict"
             THEN PromptAgain(s, "skip or cancel", "mixture content")
             ELSE [s EXCEPT !.pc = "mixture fields"])

\* the test of the fields of the mixture (lines 608-622); keys() of a value
\* that is no mapping raises AttributeError
MixtureFieldsStep ==
    /\ import_pc = "mixture fields"
    /\ LET s == Here
       IN  Becomes(
             IF MixtureOfDump.value.type # "dict" THEN Crash(s, "AttributeError")
             ELSE IF MixtureOfDump.value.fault = "missing fields"
             THEN PromptAgain(s, "skip or cancel", "mixture fields")
             ELSE [s EXCEPT !.pc = "mixture values"])

\* the stored mixture of the name, as a set of positions
StoredMixture == { i \in 1..Len(table) : table[i].name = StoredName(Strip(MixtureOfDump.key)) }

\* the stored mixture differs from the cleaned data
MixtureDiffers ==
    \E i \in StoredMixture : table[i].price_per_gram # MixtureOfDump.value.price_per_gram

\* the validation of the values and the comparison with the stored mixture
\* (lines 624-678); a missing field raises KeyError
MixtureValuesStep ==
    /\ import_pc = "mixture values"
    /\ LET s == Here
       IN  Becomes(
             IF MixtureOfDump.value.fault = "missing fields" THEN Crash(s, "KeyError")
             ELSE IF MixtureOfDump.value.fault # ""
             THEN Prompt(s, "skip or cancel", "mixture")
             ELSE IF MixtureDiffers /\ import_page.db_overwriting_confirmed = "None"
             THEN Prompt(s, "overwrite or leave", "mixture conflict")
             ELSE IF MixtureDiffers /\ import_page.db_overwriting_confirmed = "False"
             THEN NextMixture(s)
             ELSE [s EXCEPT !.pc = "mixture save"])

\* the creation or the update of the mixture (lines 680-702)
MixtureSaveStep ==
    /\ import_pc = "mixture save"
    /\ LET s == Here
           name == StoredName(Strip(MixtureOfDump.key))
           price == MixtureOfDump.value.price_per_gram
       IN  Becomes(NextMixture(
             IF StoredMixture = {}
             THEN [s EXCEPT !.db.table = Append(@, Row(name, 1500, 1500, 1500, price)),
                            !.locals.at_least_one_mixture_created = TRUE]
             ELSE IF import_page.db_overwriting_confirmed = "True"
             THEN [s EXCEPT !.db.table = [i \in 1..Len(table) |->
                                            IF i \in StoredMixture
                                            THEN Row(name, 1500, 1500, 1500, price)
                                            ELSE table[i]],
                            !.locals.at_least_one_mixture_created = TRUE]
             ELSE s))

\* the end of the main transaction (lines 729-754)
FinishStep ==
    /\ import_pc = "finish"
    /\ LET s == Here
           L == import_locals
       IN  Becomes(
             IF L.there_was_successful_plant_related_transaction
                \/ L.at_least_one_mixture_created
             THEN ReturnWith(s, TRUE)
             ELSE IF ~import_page.db_erasure_confirmed
             THEN ReturnWith([s EXCEPT !.error_dialog = "nothing was imported"], FALSE)
             ELSE Prompt(s, "restore or leave empty", "general failure"))

\* the results the buttons of a dialog set
Choices(buttons) ==
    CASE buttons = "skip or cancel" -> {"confirm", "decline"}
      [] buttons = "continue or cancel" -> {"confirm", "decline"}
      [] buttons = "overwrite or leave" -> {"overwrite", "leave"}
      [] buttons = "restore or leave empty" -> {"decline", "leave_empty"}
      [] OTHER -> {}

\* a button of the warning dialog is clicked: confirm_and_continue_import,
\* decline_and_abort_import, confirm_data_overwriting,
\* decline_data_overwriting, confirm_and_leave.  set_result of a future
\* that has a result raises InvalidStateError before the dialog is closed.
AnswerDialog(choice) ==
    /\ warning_dialog.open
    /\ warning_dialog.error = ""
    /\ choice \in Choices(warning_dialog.buttons)
    /\ import_page' = [import_page EXCEPT
                         !.db_overwriting_confirmed =
                             IF choice = "overwrite" THEN "True"
                             ELSE IF choice = "leave" THEN "False" ELSE @]
    /\ IF futures[warning_dialog.future] # "pending"
       THEN /\ warning_dialog' = [warning_dialog EXCEPT !.error = "InvalidStateError"]
            /\ UNCHANGED futures
       ELSE /\ futures' = [futures EXCEPT ![warning_dialog.future] = choice]
            /\ warning_dialog' = ClosedDialog
    /\ UNCHANGED <<dump, import_pc, import_locals, import_result, transactions>>
    /\ UNCHANGED <<table, databaseVars>>
    /\ UNCHANGED notImport

\* plant_related_transaction.rollback()
RollbackPlant(s) == [s EXCEPT !.db = s.tx.plant]

\* the coroutine goes on with the result of the awaited future
Resume ==
    /\ import_pc = "await"
    /\ futures[import_locals.user_input_future] # "pending"
    /\ LET s == Here
           site == import_locals.site
           user_choice == futures[import_locals.user_input_future]
       IN  Becomes(
             CASE site = "empty mixtures" ->
                    IF user_choice = "decline" THEN ReturnWith(s, FALSE)
                    ELSE [s EXCEPT !.pc = "begin"]
               [] site = "category" ->
                    IF user_choice = "decline" THEN ReturnWith(Rollback(s), FALSE)
                    ELSE NextCategory(s)
               [] site = "plant name" ->
                    IF user_choice = "decline" THEN ReturnWith(Rollback(s), FALSE)
                    ELSE NextPlant(s)
               [] site = "plant conflict" ->
                    IF user_choice = "leave" THEN NextPlant(s)
                    ELSE [s EXCEPT !.pc = "episodes"]
               [] site = "plant" ->
                    IF user_choice = "decline"
                    THEN NextPlant([s EXCEPT !.locals.main_transaction_to_be_terminated = TRUE])
                    ELSE NextPlant(RollbackPlant(s))
               [] site = "episode" ->
                    IF user_choice = "decline"
                    THEN [s EXCEPT !.locals.main_transaction_to_be_terminated = TRUE,
                                   !.pc = "plant end"]
                    ELSE [RollbackPlant(s) EXCEPT
                            !.locals.plant_related_transaction_failed = TRUE,
                            !.pc = "plant end"]
               [] site = "mixture" ->
                    IF user_choice = "decline" THEN ReturnWith(Rollback(s), FALSE)
                    ELSE NextMixture(s)
               [] site = "mixture content" ->
                    IF user_choice = "decline" THEN ReturnWith(Rollback(s), FALSE)
                    ELSE IF user_choice = "confirm" THEN NextMixture(s)
                    ELSE [s EXCEPT !.pc = "mixture fields"]
               [] site = "mixture fields" ->
                    IF user_choice = "decline" THEN ReturnWith(Rollback(s), FALSE)
                    ELSE IF user_choice = "confirm" THEN NextMixture(s)
                    ELSE [s EXCEPT !.pc = "mixture values"]
               [] site = "mixture conflict" ->
                    IF user_choice = "leave" THEN NextMixture(s)
                    ELSE [s EXCEPT !.pc = "mixture save"]
               [] site = "general failure" ->
                    IF user_choice = "decline" THEN ReturnWith(Rollback(s), FALSE)
                    ELSE ReturnWith(s, FALSE))

\* the end of _adjust_layout_and_await_db_import (lines 201-213)
FinishImport ==
    /\ import_pc = "returned"
    /\ import_pc' = "finished"
    /\ import_page' = [import_page EXCEPT !.ready_to_leave = TRUE, !.view = "initial"]
    /\ overlay' = IF import_result.success THEN Append(overlay, [kind |-> "SnackBar"])
                  ELSE overlay
    /\ UNCHANGED <<dump, import_locals, futures, warning_dialog, import_result, transactions>>
    /\ UNCHANGED <<page_objects, current_page_object, content_container, tasks>>
    /\ UNCHANGED <<mixerVars, utilsVars, validationVars, databaseVars, catalogVars,
                   wizardVars>>

\* the plant tables create_plant_category, create_plant and
\* create_fertilizing_episode leave behind: one category with one plant
\* with one episode
SeededPlants ==
    /\ plant_categories = Insert(EmptyTable, <<"A">>)
    /\ plants = Insert(EmptyTable, [name |-> <<"A">>, category |-> 1])
    /\ episodes = Insert(EmptyTable, EpisodeRow(1, DumpEpisode("", Finite(150, 0 - 2))))
    /\ db_result = NoResult

InitImport ==
    /\ table = <<Row("A", 1500, 1500, 1500, 4)>>
    /\ pc = "idle"
    /\ args = NoArgs
    /\ result = NoResult
    /\ Locals
    /\ UtilsIdle
    /\ ValidationIdle
    /\ DatabaseEmpty \/ SeededPlants
    /\ PagesIdle

NextImport ==
    \/ HandleErasureCheckbox
    \/ ConfirmDbErasure
    \/ DeclineDbErasure
    \/ \E d \in Dumps : WrapDbImport(d)
    \/ BeginTransaction
    \/ CategoryStep
    \/ PlantStep
    \/ EpisodesStep
    \/ EpisodeStep
    \/ PlantEndStep
    \/ MixtureStep
    \/ MixtureFieldsStep
    \/ MixtureValuesStep
    \/ MixtureSaveStep
    \/ FinishStep
    \/ \E choice \in {"confirm", "decline", "overwrite", "leave", "leave_empty"} :
          AnswerDialog(choice)
    \/ Resume
    \/ FinishImport

SpecImport == InitImport /\ [][NextImport]_vars

(***************************************************************************)
(* The add-plant pages: src/src/pages/new_plant_by_mixture.py and          *)
(* src/src/pages/new_plant_by_npk.py.  A page holds the staged plant in    *)
(* plant_data_object and the step reached in its counters; the handlers    *)
(* are those of its buttons.  The dialogs are modal: no button of the page *)
(* can be pressed while the error dialog is shown.  A page with input is   *)
(* left only by abandoning the input, so the other page is as built.       *)
(* The counters of the by-mixture page are None or an int.  Masses of the   *)
(* staged data are Decimals in thousandths, as in utils.py;                *)
(* the masses passed to create_fertilizing_episode are those of            *)
(* database.py.                                                            *)
(***************************************************************************)
\* bound of the model: the number of episodes staged for a plant
MaxEpisodes == 2

\* bound of the model: the number of components staged for an episode
MaxComponents == 2

\* the values of the plant name field
PlantNames == {<<"a">>, <<"b">>, <<" ">>}

\* the values of the category dropdown: the ids of the categories, and 0
\* for '' (nothing chosen)
CategoryChoices == DOMAIN plant_categories \cup {0}

\* the values of the magnesium sulfate field that pass
\* validate_decimal_string(min_value=0, max_decimals=2), which has no
\* max_value: 1.50 and 10000
MagnesiumMasses == {Finite(150, 0 - 2), Finite(10000, 0)}

\* the values of a mass field that pass validate_decimal_string with no
\* max_value: 100 and a number of 29 digits
LongMasses == {Dec(100 * Milli), Dec(Infinity)}

\* the values of the mass multiplier field
Multipliers == {Dec(2 * Milli)}

\* validate_string(value): the field is not blank
validate_string(value) == Strip(value) # <<>>

\* does_plant_exist(name)
does_plant_exist(name) == PlantNameTaken(Capitalize(name), 0)

\* create_plant(name, category_id) for a str and an int: what it returns,
\* and the row it stores
create_plant(name, category_id) ==
    IF Strip(name) = <<>> THEN Fail("plant name must be a non-empty string")
    ELSE IF ~CategoryExists(category_id) THEN Fail("the category does not exist")
    ELSE IF PlantNameTaken(Capitalize(name), 0)
    THEN Fail("a plant with this name already exists")
    ELSE [success |-> TRUE, plant_id |-> NextId(plants),
          row |-> [name |-> Capitalize(name), category |-> category_id]]

\* the row PlantFertilizingEpisode.create(...) stores for the arguments of
\* create_fertilizing_episode
StoredEpisode(plant_id, a) ==
    [plant |-> plant_id,
     nitrogen_mass |-> a.nitrogen_mass,
     phosphorus_mass |-> a.phosphorus_mass,
     potassium_mass |-> a.potassium_mass,
     magnesium_sulfate_mass |-> a.magnesium_sulfate_mass,
     plant_life_stage_description |-> a.plant_life_stage_description.len,
     total_repetitions |-> a.total_repetitions.val]

\* the rows after the calls of create_fertilizing_episode for the arguments
\* given, in their order
RECURSIVE InsertAll(_, _, _)
InsertAll(rows, plant_id, calls) ==
    IF calls = <<>> THEN rows
    ELSE InsertAll(Insert(rows, StoredEpisode(plant_id, Head(calls))), plant_id, Tail(calls))

\* the loop over the staged episodes: "ok" when every pass succeeds, or what
\* the first pass that does not succeed does
FirstFailure(passes) ==
    LET failed == { i \in 1..Len(passes) : passes[i] # "ok" }
    IN  IF failed = {} THEN "ok"
        ELSE passes[CHOOSE i \in failed : \A j \in failed : i <= j]

\* get_component_masses and apply_nano_coefficients for a mixture and a
\* mass: the masses of N, P and K, or the exception.  A product of 29 digits
\* cannot be quantized to 0.01 in the 28 digits of the context
NanoMasses(n_percentage, p_percentage, k_percentage, total_mass) ==
    IF /\ QuantizeFails(total_mass)
       /\ n_percentage + p_percentage + k_percentage > 0
    THEN Raise("InvalidOperation", "", "total_mass")
    ELSE LET masses == get_component_masses([n_percentage |-> Dec(n_percentage),
                                             p_percentage |-> Dec(p_percentage),
                                             k_percentage |-> Dec(k_percentage),
                                             total_mass |-> total_mass])
         IN  IF masses.kind = "raise" THEN masses
             ELSE LET applied == apply_nano_coefficients(masses.value, [k \in {} |-> None])
                  IN  IF applied.outcome.kind = "raise" THEN applied.outcome
                      ELSE Return(applied.mapping)

\* a Decimal of utils.py, quantized to 0.01, as database.py sees it
AsStored(mass) == Finite(mass.val \div 10, 0 - 2)

(***************************************************************************)
(* NewPlantByMixturePage                                                   *)
(***************************************************************************)
\* the step is a handler of the by-mixture page: its buttons can be pressed
MixturePageShown ==
    /\ npk_page = NPKPage
    /\ mixture_page.error_dialog = ""

\* the by-mixture page becomes p; the tables and the overlay stay
MixturePageBecomes(p) ==
    /\ mixture_page' = p
    /\ UNCHANGED <<plant_categories, plants, episodes, overlay, npk_page>>
    /\ UNCHANGED notWizard

\* validate_plant_metadata: the cleaned data, or None
validate_plant_metadata(name, category_id) ==
    IF validate_string(name) /\ ~does_plant_exist(Strip(name)) /\ category_id # 0
    THEN [name |-> Capitalize(Strip(name)), category_id |-> category_id]
    ELSE None

\* append_plant_metadata_and_update_layout
append_plant_metadata_and_update_layout(name, category_id) ==
    /\ MixturePageShown
    /\ mixture_page.view = "plant_metadata"
    /\ LET cleaned_data == validate_plant_metadata(name, category_id)
       IN  MixturePageBecomes(
             IF cleaned_data = None THEN mixture_page
             ELSE [mixture_page EXCEPT
                     !.plant_data_object = [name |-> cleaned_data.name,
                                            category_id |-> cleaned_data.category_id,
                                            fertilizing_episodes |-> <<>>],
                     !.current_episode_number = Integer(1),
                     !.view = "fertilizing_metadata"])

\* FertilizingEpisodeData(description, magnesium_sulfate_mass, reps)
FertilizingEpisodeData(magnesium_sulfate_mass) ==
    [description |-> [type |-> "str", len |-> 10],
     magnesium_sulfate_mass |-> magnesium_sulfate_mass,
     reps |-> Integer(1),
     components |-> <<>>]

\* the staged episodes of a page
Staged(p) == p.plant_data_object.fertilizing_episodes

\* append_fertilizing_metadata_and_update_layout, the fields valid
append_fertilizing_metadata_and_update_layout(magnesium_sulfate_mass) ==
    /\ MixturePageShown
    /\ mixture_page.view = "fertilizing_metadata"
    /\ Len(Staged(mixture_page)) < MaxEpisodes
    /\ MixturePageBecomes(
         [mixture_page EXCEPT
            !.plant_data_object.fertilizing_episodes =
                Append(@, FertilizingEpisodeData(magnesium_sulfate_mass)),
            !.current_component_number = Integer(1),
            !.view = "components_adding"])

\* ComponentData(fertilizing_mixture_id, mass)
ComponentData(fertilizing_mixture_id, mass) ==
    [fertilizing_mixture_id |-> fertilizing_mixture_id, mass |-> mass]

\* the values of the component dropdown: the ids of the mixtures, and 0 for
\* '' (nothing chosen)
ComponentChoices == (1..Len(table)) \cup {0}

\* validate_component_data
validate_component_data(component) == component.fertilizing_mixture_id # 0

\* target_episode.append_component(component) for the last staged episode
WithComponent(p, component) ==
    [p EXCEPT !.plant_data_object.fertilizing_episodes[Len(Staged(p))].components =
                  Append(@, component)]

\* fertilizing_episodes[-1].components.pop()
WithoutLastComponent(p) ==
    [p EXCEPT !.plant_data_object.fertilizing_episodes[Len(Staged(p))].components =
                  SubSeq(@, 1, Len(@) - 1)]

\* fertilizing_episodes.pop()
WithoutLastEpisode(p) ==
    [p EXCEPT !.plant_data_object.fertilizing_episodes = SubSeq(@, 1, Len(@) - 1)]

\* append_component(): the page after the call; the data is appended when
\* it is valid and there is a staged episode
append_component(component) ==
    IF validate_component_data(component)
    THEN IF mixture_page.plant_data_object = None
         THEN [mixture_page EXCEPT !.error_dialog = "critical error"]
         ELSE IF Staged(mixture_page) = <<>>
         THEN [mixture_page EXCEPT !.error_dialog = "critical error"]
         ELSE WithComponent(mixture_page, component)
    ELSE mixture_page

\* the call has appended the component
Appended(p) == p # mixture_page /\ p.error_dialog = ""

\* the components of the last staged episode are fewer than the bound
RoomForComponent ==
    IF mixture_page.plant_data_object = None THEN TRUE
    ELSE IF Staged(mixture_page) = <<>> THEN TRUE
    ELSE Len(Staged(mixture_page)[Len(Staged(mixture_page))].components) < MaxComponents

\* append_component_and_update_layout
append_component_and_update_layout(component) ==
    /\ MixturePageShown
    /\ mixture_page.view = "components_adding"
    /\ RoomForComponent
    /\ LET p == append_component(component)
       IN  MixturePageBecomes(
             IF Appended(p)
             THEN [p EXCEPT !.current_component_number = Integer(@.val + 1)]
             ELSE p)

\* append_last_component_and_update_layout
append_last_component_and_update_layout(component) ==
    /\ MixturePageShown
    /\ mixture_page.view = "components_adding"
    /\ RoomForComponent
    /\ LET p == append_component(component)
       IN  MixturePageBecomes(
             IF Appended(p)
             THEN [p EXCEPT !.current_episode_number = Integer(@.val + 1),
                            !.current_component_number = None,
                            !.view = "fertilizing_metadata"]
             ELSE p)

\* go_back
go_back ==
    /\ MixturePageShown
    /\ LET p == mixture_page
       IN  MixturePageBecomes(
             IF p.current_component_number # None
             THEN IF p.current_component_number = Integer(1)
                  THEN [WithoutLastEpisode(p) EXCEPT !.current_component_number = None,
                                                     !.view = "fertilizing_metadata"]
                  ELSE [WithoutLastComponent(p) EXCEPT
                          !.current_component_number = Integer(@.val - 1),
                                                       !.view = "components_adding"]
             ELSE IF p.current_episode_number # None
             THEN IF p.current_episode_number = Integer(1)
                  THEN [p EXCEPT !.plant_data_object = None,
                                 !.current_episode_number = None,
                                 !.view = "plant_metadata"]
                  ELSE [WithoutLastComponent(p) EXCEPT
                          !.current_component_number =
                              Integer(Len(Staged(p)[Len(Staged(p))].components)),
                          !.current_episode_number = Integer(@.val - 1),
                          !.view = "components_adding"]
             ELSE [p EXCEPT !.error_dialog = "critical error"])

\* the loop over episode.components: the episode_composition in
\* thousandths, or the exception of the first component that raises one
RECURSIVE EpisodeComposition(_)
EpisodeComposition(components) ==
    IF components = <<>> THEN Return([N |-> 0, P |-> 0, K |-> 0])
    ELSE LET before == EpisodeComposition(SubSeq(components, 1, Len(components) - 1))
             component == components[Len(components)]
             fertilizing_mixture_object == table[component.fertilizing_mixture_id]
             component_composition ==
                 NanoMasses(10 * fertilizing_mixture_object.nitrogen_percentage,
                            10 * fertilizing_mixture_object.phosphorus_percentage,
                            10 * fertilizing_mixture_object.potassium_percentage,
                            component.mass)
         IN  IF before.kind = "raise" THEN before
             ELSE IF component_composition.kind = "raise" THEN component_composition
             ELSE Return([key \in {"N", "P", "K"} |->
                            before.value[key] + component_composition.value[key].val])

\* the arguments of create_fertilizing_episode for a staged episode of the
\* by-mixture page and its composition
MixtureEpisodeCall(episode, episode_composition) ==
    [nitrogen_mass |-> AsStored(Dec(episode_composition.N)),
     phosphorus_mass |-> AsStored(Dec(episode_composition.P)),
     potassium_mass |-> AsStored(Dec(episode_composition.K)),
     magnesium_sulfate_mass |-> episode.magnesium_sulfate_mass,
     plant_life_stage_description |-> episode.description,
     total_repetitions |-> episode.reps]

\* the pass of the loop of save_all_data for one episode: an exception
\* ("raise"), a failed creation ("fail") or "ok"
MixtureEpisodePass(episode) ==
    LET episode_composition == EpisodeComposition(episode.components)
    IN  IF episode_composition.kind = "raise" THEN "raise"
        ELSE IF EpisodeFault(MixtureEpisodeCall(episode, episode_composition.value)) # ""
        THEN "fail"
        ELSE "ok"

\* the SnackBar of a successful save
SavedSnackBar == [kind |-> "SnackBar"]

\* the save has stored the plant and its episodes: the tables and the
\* overlay after it
Stored(plant_creation_result, calls) ==
    /\ NextId(plants) <= MaxRowId
    /\ NextId(episodes) + Len(calls) - 1 <= MaxRowId
    /\ plants' = Insert(plants, plant_creation_result.row)
    /\ episodes' = InsertAll(episodes, plant_creation_result.plant_id, calls)
    /\ overlay' = Append(overlay, SavedSnackBar)
    /\ UNCHANGED plant_categories

\* the transaction is rolled back: the tables and the overlay stay
RolledBack == UNCHANGED <<plant_categories, plants, episodes, overlay>>

\* save_all_data
save_all_data(component) ==
    /\ MixturePageShown
    /\ mixture_page.view = "components_adding"
    /\ RoomForComponent
    /\ UNCHANGED npk_page
    /\ UNCHANGED notWizard
    /\ LET p == append_component(component)
       IN  IF ~Appended(p)
           THEN mixture_page' = p /\ RolledBack
           ELSE LET plant_creation_result == create_plant(p.plant_data_object.name,
                                                          p.plant_data_object.category_id)
                    passes == [i \in 1..Len(Staged(p)) |-> MixtureEpisodePass(Staged(p)[i])]
                    calls == [i \in 1..Len(Staged(p)) |->
                                MixtureEpisodeCall(
                                    Staged(p)[i],
                                    EpisodeComposition(Staged(p)[i].components).value)]
                IN  IF ~plant_creation_result.success
                    THEN /\ mixture_page' =
                                [p EXCEPT !.error_dialog = plant_creation_result.error]
                         /\ RolledBack
                    ELSE IF FirstFailure(passes) = "raise"
                    THEN mixture_page' = p /\ RolledBack
                    ELSE IF FirstFailure(passes) = "fail"
                    THEN /\ mixture_page' =
                                [WithoutLastComponent(p) EXCEPT
                                   !.error_dialog = "the episode was not created"]
                         /\ RolledBack
                    ELSE /\ mixture_page' = MixturePage
                         /\ Stored(plant_creation_result, calls)

\* close_error_dialog of the by-mixture page
CloseMixtureErrorDialog ==
    /\ npk_page = NPKPage
    /\ mixture_page.error_dialog # ""
    /\ MixturePageBecomes([mixture_page EXCEPT !.error_dialog = ""])

(***************************************************************************)
(* NewPlantByNPKPage                                                       *)
(***************************************************************************)
\* the step is a handler of the form of the by-NPK page
NPKPageShown ==
    /\ mixture_page = MixturePage
    /\ npk_page.error_dialog = ""

\* the by-NPK page becomes p; the tables and the overlay stay
NPKPageBecomes(p) ==
    /\ npk_page' = p
    /\ UNCHANGED <<plant_categories, plants, episodes, overlay, mixture_page>>
    /\ UNCHANGED notWizard

\* validate_plant_data, the percentages valid: the cleaned data, or None
validate_plant_data(name, category_id) ==
    IF validate_string(name) /\ ~does_plant_exist(Strip(name)) /\ category_id # 0
    THEN [name |-> Strip(name), category_id |-> category_id]
    ELSE None

\* validate_and_open_modal; the percentages entered are 15, 15 and 15
validate_and_open_modal(name, category_id) ==
    /\ NPKPageShown
    /\ ~npk_page.modal
    /\ LET cleaned_data == validate_plant_data(name, category_id)
       IN  NPKPageBecomes(
             IF cleaned_data = None THEN npk_page
             ELSE [npk_page EXCEPT
                     !.plant_data_object = [name |-> cleaned_data.name,
                                            nitrogen_percentage |-> 15 * Milli,
                                            phosphorus_percentage |-> 15 * Milli,
                                            potassium_percentage |-> 15 * Milli,
                                            category_id |-> cleaned_data.category_id,
                                            fertilizing_episodes |-> <<>>],
                     !.modal = TRUE])

\* the fields of the modal: the mass (first episode) or the multiplier
\* (later episodes), and the magnesium sulfate mass
EpisodeFields ==
    [mass : LongMasses, mass_multiplier : Multipliers,
     magnesium_sulfate_mass : MagnesiumMasses]

\* append_fertilizing_data(): the page after the call, or the exception
append_fertilizing_data(cleaned_data) ==
    IF npk_page.plant_data_object = None
    THEN Return([npk_page EXCEPT !.error_dialog = "critical error"])
    ELSE LET plant == npk_page.plant_data_object
             total_fertilizing_mass ==
                 IF npk_page.current_episode_number = 0 THEN cleaned_data.mass
                 ELSE Dec(Quantize(Times(
                          cleaned_data.mass_multiplier.val,
                          plant.fertilizing_episodes[Len(plant.fertilizing_episodes)].mass.val)))
             nano_masses == NanoMasses(plant.nitrogen_percentage,
                                       plant.phosphorus_percentage,
                                       plant.potassium_percentage,
                                       total_fertilizing_mass)
         IN  IF nano_masses.kind = "raise" THEN nano_masses
             ELSE Return([npk_page EXCEPT
                            !.plant_data_object.fertilizing_episodes =
                                Append(@, [mass |-> total_fertilizing_mass,
                                           nitrogen |-> nano_masses.value.N,
                                           phosphorus |-> nano_masses.value.P,
                                           potassium |-> nano_masses.value.K,
                                           magnesium_sulfate_mass |->
                                               cleaned_data.magnesium_sulfate_mass,
                                           description |-> [type |-> "str", len |-> 10],
                                           reps |-> Integer(1)])])

\* the staged episodes of the by-NPK page are fewer than the bound
RoomForEpisode ==
    IF npk_page.plant_data_object = None THEN TRUE
    ELSE Len(Staged(npk_page)) < MaxEpisodes

\* append_fertilizing_data_and_add_form
append_fertilizing_data_and_add_form(cleaned_data) ==
    /\ NPKPageShown
    /\ npk_page.modal
    /\ RoomForEpisode
    /\ LET appended == append_fertilizing_data(cleaned_data)
       IN  NPKPageBecomes(
             IF appended.kind = "raise" THEN npk_page
             ELSE IF appended.value.error_dialog # "" THEN appended.value
             ELSE [appended.value EXCEPT !.current_episode_number = @ + 1])

\* the arguments of create_fertilizing_episode for a staged episode of the
\* by-NPK page
NPKEpisodeCall(episode) ==
    [nitrogen_mass |-> AsStored(episode.nitrogen),
     phosphorus_mass |-> AsStored(episode.phosphorus),
     potassium_mass |-> AsStored(episode.potassium),
     magnesium_sulfate_mass |-> episode.magnesium_sulfate_mass,
     plant_life_stage_description |-> episode.description,
     total_repetitions |-> episode.reps]

\* the pass of the loop of save_plant_and_episodes for one episode
NPKEpisodePass(episode) ==
    IF EpisodeFault(NPKEpisodeCall(episode)) # "" THEN "fail" ELSE "ok"

\* abort_episodes_and_close_modal(e): the page after the call
Aborted(p) ==
    [p EXCEPT !.plant_data_object =
                  IF @ = None THEN @ ELSE [@ EXCEPT !.fertilizing_episodes = <<>>],
              !.current_episode_number = 0,
              !.modal = FALSE]

\* save_plant_and_episodes
save_plant_and_episodes(cleaned_data) ==
    /\ NPKPageShown
    /\ npk_page.modal
    /\ RoomForEpisode
    /\ UNCHANGED mixture_page
    /\ UNCHANGED notWizard
    /\ LET appended == append_fertilizing_data(cleaned_data)
       IN  IF appended.kind = "raise"
           THEN npk_page' = npk_page /\ RolledBack
           ELSE IF appended.value.error_dialog # ""
           THEN npk_page' = appended.value /\ RolledBack
           ELSE LET p == appended.value
                    plant_creation_result == create_plant(p.plant_data_object.name,
                                                          p.plant_data_object.category_id)
                    passes == [i \in 1..Len(Staged(p)) |-> NPKEpisodePass(Staged(p)[i])]
                    calls == [i \in 1..Len(Staged(p)) |-> NPKEpisodeCall(Staged(p)[i])]
                IN  IF ~plant_creation_result.success
                    THEN /\ npk_page' = [p EXCEPT !.error_dialog = plant_creation_result.error]
                         /\ RolledBack
                    ELSE IF FirstFailure(passes) = "fail"
                    THEN /\ npk_page' = [WithoutLastEpisode(p) EXCEPT
                                           !.error_dialog = "the episode was not created"]
                         /\ RolledBack
                    ELSE /\ npk_page' = NPKPage
                         /\ Stored(plant_creation_result, calls)

\* undo_episode_appending: the button is shown from the second form on
undo_episode_appending ==
    /\ NPKPageShown
    /\ npk_page.modal
    /\ npk_page.current_episode_number > 0
    /\ NPKPageBecomes(
         IF npk_page.plant_data_object = None
         THEN [npk_page EXCEPT !.error_dialog = "critical error"]
         ELSE IF Staged(npk_page) = <<>>
         THEN [npk_page EXCEPT !.error_dialog = "critical error"]
         ELSE [WithoutLastEpisode(npk_page) EXCEPT !.current_episode_number = @ - 1])

\* abort_episodes_and_close_modal
abort_episodes_and_close_modal ==
    /\ NPKPageShown
    /\ npk_page.modal
    /\ NPKPageBecomes(Aborted(npk_page))

\* close_error_dialog of the by-NPK page
CloseNPKErrorDialog ==
    /\ mixture_page = MixturePage
    /\ npk_page.error_dialog # ""
    /\ NPKPageBecomes([npk_page EXCEPT !.error_dialog = ""])

\* one category, and no plant or the plant "A" with one episode; the catalog
\* holds one mixture
InitWizard ==
    /\ table = SeededCatalog
    /\ pc = "idle"
    /\ args = NoArgs
    /\ result = NoResult
    /\ Locals
    /\ UtilsIdle
    /\ ValidationIdle
    /\ \/ SeededPlants
       \/ /\ plant_categories = Insert(EmptyTable, <<"A">>)
          /\ plants = EmptyTable
          /\ episodes = EmptyTable
          /\ db_result = NoResult
    /\ PagesIdle

NextWizard ==
    \/ \E name \in PlantNames, category_id \in CategoryChoices :
          append_plant_metadata_and_update_layout(name, category_id)
    \/ \E magnesium_sulfate_mass \in MagnesiumMasses :
          append_fertilizing_metadata_and_update_layout(magnesium_sulfate_mass)
    \/ \E fertilizing_mixture_id \in ComponentChoices, mass \in LongMasses :
          \/ append_component_and_update_layout(ComponentData(fertilizing_mixture_id, mass))
          \/ append_last_component_and_update_layout(
                 ComponentData(fertilizing_mixture_id, mass))
          \/ save_all_data(ComponentData(fertilizing_mixture_id, mass))
    \/ go_back
    \/ CloseMixtureErrorDialog
    \/ \E name \in PlantNames, category_id \in CategoryChoices :
          validate_and_open_modal(name, category_id)
    \/ \E cleaned_data \in EpisodeFields :
          \/ append_fertilizing_data_and_add_form(cleaned_data)
          \/ save_plant_and_episodes(cleaned_data)
    \/ undo_episode_appending
    \/ abort_episodes_and_close_modal
    \/ CloseNPKErrorDialog

SpecWizard == InitWizard /\ [][NextWizard]_vars

(***************************************************************************)
(* Properties                                                              *)
(***************************************************************************)
\* the call has returned the successful result
Succeeded == pc = "done" /\ result.kind = "return" /\ result.success

\* a mass in ug that has at most 2 decimal places in grams
TwoDecimals(mass) == mass % (100 * 100) = 0

\* a reported value (hundredths of a gram) in ug
Reported(hundredths) == hundredths * 100 * 100

\* the fixed-point arithmetic of the model is exact for the inputs tried
ExactArithmetic ==
    pc \notin {"idle", "check", "guard"} =>
        /\ (args.total_mass.val * step) % 100 = 0
        /\ \A i \in 1..Len(table) : \A c \in {table[i].nitrogen_percentage,
                                              table[i].phosphorus_percentage,
                                              table[i].potassium_percentage} :
              MulMod(UnitMass(args.total_mass.val), c, 100 * 100) = 0

\* C1 as stated: on success the reported actual_composition (rounded to 2
\* decimals) of each nutrient is at least the requested target, for every
\* numeric target.
C1_ReportedAtLeastTarget ==
    Succeeded =>
        \A p \in Nutrients :
            Reported(result.actual_composition[p]) >= desired_composition[p]

\* C1 amended: on success the achieved mass of each nutrient before rounding
\* is at least the target, and the reported (rounded) value is at least the
\* target whenever the target has at most 2 decimal places.
C1_AtLeastTarget ==
    Succeeded =>
        \A p \in Nutrients :
            /\ actual_composition[p] >= desired_composition[p]
            /\ TwoDecimals(desired_composition[p]) =>
                 Reported(result.actual_composition[p]) >= desired_composition[p]

\* C1 witness: a success with a positive 2-decimal target that a selected
\* product covers
C1_Witness ==
    /\ Succeeded
    /\ Len(result.mixture) > 0
    /\ \E p \in Nutrients :
          /\ desired_composition[p] > 0
          /\ TwoDecimals(desired_composition[p])
          /\ Reported(result.actual_composition[p]) >= desired_composition[p]

\* C2 as stated: on success the reported actual_composition (rounded to 2
\* decimals) of each nutrient is at most the target plus 0.5 g.
C2_ReportedAtMostBand ==
    Succeeded =>
        \A p \in Nutrients :
            Reported(result.actual_composition[p]) <= desired_composition[p] + Half

\* C2 amended: on success the achieved mass of each nutrient before rounding
\* is at most the target plus 0.5 g, and the reported (rounded) value is at
\* most the target plus 0.5 g whenever the target has at most 2 decimal
\* places.
C2_AtMostBand ==
    Succeeded =>
        \A p \in Nutrients :
            /\ actual_composition[p] <= desired_composition[p] + Half
            /\ TwoDecimals(desired_composition[p]) =>
                 Reported(result.actual_composition[p]) <= desired_composition[p] + Half

\* C2 witness: a success where a nutrient overshoots its 2-decimal target
C2_Witness ==
    /\ Succeeded
    /\ \E p \in Nutrients :
          /\ TwoDecimals(desired_composition[p])
          /\ Reported(result.actual_composition[p]) > desired_composition[p]
          /\ Reported(result.actual_composition[p]) <= desired_composition[p] + Half

\* C3 in the words of the claim.  One unit of a product is 0.05 x total_mass
\* grams of it; the contribution of counts y to a nutrient is the sum of
\* count x unit x percentage / 100; the cost of y is the sum of
\* count x price_per_gram x 0.05.
ClaimUnit == (args.total_mass.val * 5) \div 100

ClaimContribution(y, p) ==
    SumTo([i \in 1..Len(ingredients) |->
             MulDiv(y[i] * ClaimUnit, ingredients[i].composition[p], 100 * 100)],
          Len(ingredients))

ClaimInBand(y) ==
    \A p \in Nutrients :
        /\ ClaimContribution(y, p) >= desired_composition[p]
        /\ ClaimContribution(y, p) <= desired_composition[p] + Half

ClaimCost(y) ==
    SumTo([i \in 1..Len(ingredients) |-> y[i] * ingredients[i].price * 5],
          Len(ingredients))

ClaimUnits(y) == SumTo(y, Len(ingredients))

\* the largest count of product i that can be in the band: beyond it the
\* product alone exceeds target + 0.5 of a nutrient it carries; a product
\* that carries no nutrient is tried up to MaxFreeUnits
ClaimCap(i) ==
    LET carried == { p \in Nutrients : ingredients[i].composition[p] > 0 }
        caps == { (desired_composition[p] + Half)
                    \div MulDiv(ClaimUnit, ingredients[i].composition[p], 100 * 100) :
                  p \in carried }
    IN  IF carried = {} THEN MaxFreeUnits
        ELSE CHOOSE c \in caps : \A d \in caps : c <= d

ClaimBox ==
    LET n == Len(ingredients)
        caps == { ClaimCap(i) : i \in 1..n }
        most == CHOOSE c \in caps : \A d \in caps : c >= d
    IN  { y \in [1..n -> 0..most] : \A i \in 1..n : y[i] <= ClaimCap(i) }

\* C3: on success no assignment of non-negative unit counts that satisfies
\* the six band constraints costs strictly less than the selected one.
C3_CostMinimal ==
    Succeeded =>
        /\ ClaimInBand(varValue)
        /\ \A y \in ClaimBox : ClaimInBand(y) => ClaimCost(y) >= ClaimCost(varValue)

\* C3 witness: a success where another assignment in the band uses fewer
\* units and costs more than the selected one
C3_Witness ==
    /\ Succeeded
    /\ \E y \in ClaimBox :
          /\ ClaimInBand(y)
          /\ ClaimUnits(y) < ClaimUnits(varValue)
          /\ ClaimCost(y) > ClaimCost(varValue)

\* the arguments are numbers (after the conversion all are floats)
NumericCall == \A n \in DOMAIN args : args[n].type \in {"int", "float", "Decimal"}

\* the catalog has not been read and no solve has run
NoWorkDone == ingredients = <<>> /\ status = "Not Solved" /\ varValue = <<>>

\* C4: for every numeric total_mass <= 0 the call returns success=False with
\* the 'mass must be greater than zero' error, whatever the targets and the
\* catalog, before the catalog is read or a solve is run.
C4_MassGuard ==
    (pc = "done" /\ NumericCall /\ args.total_mass.val <= 0) =>
        /\ result = [kind |-> "return", success |-> FALSE, error |-> MassError]
        /\ NoWorkDone

\* C4 witness: a call with total_mass = 0 and a positive target has returned
\* the mass error
C4_Witness ==
    /\ pc = "done"
    /\ NumericCall
    /\ args.total_mass.val = 0
    /\ args.nitrogen.val > 0
    /\ result.kind = "return"
    /\ result.error = MassError

\* C5: if any of the four arguments is not an int, float or Decimal, the
\* type check raises instead of returning a result, before the total_mass
\* guard, the catalog read and the solve.
C5_TypeErrorFirst ==
    [][(pc = "check" /\ ~NumericCall) =>
          /\ pc' = "done"
          /\ result'.kind = "raise"
          /\ result'.exception = "TypeError"
          /\ NoWorkDone']_vars

\* C5 witness: a call whose total_mass is 0 and whose first argument is a
\* str has raised
C5_Witness ==
    /\ pc = "done"
    /\ args.nitrogen.type = "str"
    /\ args.total_mass.val <= 0
    /\ args.total_mass.type = "int"
    /\ result.kind = "raise"

\* the catalog holds one product, with 0% N, 0% P and 0% K
OnlyZeroProduct ==
    /\ Len(table) = 1
    /\ table[1].nitrogen_percentage = 0
    /\ table[1].phosphorus_percentage = 0
    /\ table[1].potassium_percentage = 0

\* C6: with a catalog whose only product has 0% N, P and K, a call with
\* total_mass > 0 and a positive target for at least one nutrient returns
\* success=False with the 'could not find a matching composition' error.
C6_ZeroCatalogInfeasible ==
    (/\ pc = "done"
     /\ NumericCall
     /\ OnlyZeroProduct
     /\ args.total_mass.val > 0
     /\ \E p \in Nutrients : desired_composition[p] > 0) =>
        result = [kind |-> "return", success |-> FALSE, error |-> CompositionError]

\* C6 witness: such a call, with one positive and one zero target, has failed
C6_Witness ==
    /\ pc = "done"
    /\ OnlyZeroProduct
    /\ args.total_mass.val > 0
    /\ desired_composition["N"] = 0
    /\ desired_composition["K"] > 0
    /\ result.kind = "return"
    /\ ~result.success
    /\ status = "Infeasible"

\* the request of test_successful_optimization on the standard dataset:
\* N = P = K = 100 g, total_mass = 300 g
TestRequest ==
    /\ table \in ScenarioTest.stores
    /\ NumericCall
    /\ \A p \in Nutrients : desired_composition[p] = 100 * G
    /\ args.total_mass.val = 300 * G

MixtureNames == { result.mixture[i].name : i \in 1..Len(result.mixture) }

\* C7: on the standard dataset the request N = P = K = 100, total_mass = 300
\* succeeds, FertUnbalanced is not in the mixture, and each achieved
\* nutrient mass lies in [100, 100.5].
C7_TestScenario ==
    (pc = "done" /\ TestRequest) =>
        /\ result.kind = "return"
        /\ result.success
        /\ "FertUnbalanced" \notin MixtureNames
        /\ \A p \in Nutrients :
              /\ result.actual_composition[p] >= 100 * 100
              /\ result.actual_composition[p] <= 100 * 100 + 50

\* C7 witness: the request has returned a mixture of two products
C7_Witness ==
    /\ pc = "done"
    /\ TestRequest
    /\ result.kind = "return"
    /\ result.success
    /\ MixtureNames = {"FertBalanced", "FertExpensive"}

\* C8: on success total_cost equals the sum of the 'cost' fields of the
\* entries of 'mixture' (a sum of values rounded to 2 decimals, so it has 2
\* decimals itself).
C8_TotalCostIsSumOfCosts ==
    Succeeded =>
        result.total_cost =
            SumTo([i \in 1..Len(result.mixture) |-> result.mixture[i].cost],
                  Len(result.mixture))

\* the cost of the selected counts without the rounding of each product's
\* cost, rounded once (what the objective value times total_mass would give)
RawTotalCost ==
    LET raw == SumTo([i \in 1..Len(ingredients) |->
                        varValue[i] * ingredients[i].price * step
                        * (args.total_mass.val \div (100 * 100))],
                     Len(ingredients))
    IN  round2(raw \div (100 * 100), raw % (100 * 100), 100 * 100)

\* C8 witness: a success with two listed products whose total_cost differs
\* from the rounded cost of the unrounded masses
C8_Witness ==
    /\ Succeeded
    /\ Len(result.mixture) >= 2
    /\ result.total_cost > 0
    /\ result.total_cost \notin RawTotalCost

\* C9 as stated: on success every entry of 'mixture' has a reported
\* mass_in_grams > 0, for every total_mass > 0.
C9_ReportedMassPositive ==
    Succeeded =>
        \A i \in 1..Len(result.mixture) : result.mixture[i].mass_in_grams > 0

\* C9 amended: on success the listed products are exactly those with a
\* non-zero unit count, and every listed product has a strictly positive
\* reported mass whenever one unit step (0.05 x total_mass) is more than
\* 0.005 g.
C9_ZeroUnitsLeftOut ==
    Succeeded =>
        /\ MixtureNames = { ingredients[i].name :
                              i \in { j \in 1..Len(ingredients) : varValue[j] > 0 } }
        /\ UnitMass(args.total_mass.val) > 5000 =>
              \A i \in 1..Len(result.mixture) : result.mixture[i].mass_in_grams > 0

\* C9 witness: a success with a unit step above 0.005 g where one product is
\* listed and another, with zero units, is not
C9_Witness ==
    /\ Succeeded
    /\ UnitMass(args.total_mass.val) > 5000
    /\ Len(result.mixture) = 1
    /\ Len(ingredients) = 2
    /\ result.mixture[1].mass_in_grams > 0

\* C10: the 'mixture' list of a success is in ascending order of product
\* name, with each product at most once, whatever the row order of the store.
C10_MixtureInNameOrder ==
    Succeeded =>
        \A i, j \in 1..Len(result.mixture) :
            i < j => NameLess(result.mixture[i].name, result.mixture[j].name)

\* C10 witness: a success with two listed products on a store whose rows are
\* not in name order
C10_Witness ==
    /\ Succeeded
    /\ Len(result.mixture) >= 2
    /\ NameLess(table[2].name, table[1].name)

\* the total_cost values the loop over the first n ingredients can reach for
\* the unit counts x: the rounded costs of the selected products, added up
RECURSIVE CostsUpTo(_, _, _, _)
CostsUpTo(x, ings, mass, n) ==
    IF n = 0 THEN {0}
    ELSE { IF Selected(x[n]) THEN AddCost(t, c) ELSE t :
           t \in CostsUpTo(x, ings, mass, n - 1),
           c \in Cost(ings[n].price, AbsoluteMass(x[n], mass)) }

\* the total_cost a call reports when the solver returns the unit counts x
ReportedTotalCost(x) ==
    UNION { TotalCost(t) :
            t \in CostsUpTo(x, ingredients, args.total_mass.val, Len(ingredients)) }

\* the cost-optimal unit counts of the call in progress
OptimalNow == Optimal(ingredients, desired_composition, args.total_mass.val)

\* C11: for fixed inputs and a fixed catalog the outcome does not depend on
\* which cost-optimal solution the solver picks: on success, every optimal
\* assignment of unit counts leads to the reported total_cost of this call.
C11_TieIndependent ==
    Succeeded => \A y \in OptimalNow : result.total_cost \in ReportedTotalCost(y)

\* every product of the catalog has N, P and K percentages that total at
\* most 100
CatalogWithin100 ==
    \A i \in 1..Len(table) :
        table[i].nitrogen_percentage + table[i].phosphorus_percentage
        + table[i].potassium_percentage <= 100 * 100

\* target N + target P + target K
TargetSum == SumTo([i \in 1..3 |-> desired_composition[<<"N", "P", "K">>[i]]], 3)

\* the sum of the reported mass_in_grams of the listed products, in ug
ReportedMassSum ==
    Reported(SumTo([i \in 1..Len(result.mixture) |-> result.mixture[i].mass_in_grams],
                   Len(result.mixture)))

\* the sum of the masses of the selected products before rounding
SelectedMassSum ==
    SumTo([i \in 1..Len(ingredients) |-> varValue[i] * UnitMass(args.total_mass.val)],
          Len(ingredients))

\* C12 as stated: on a success with a catalog whose products total at most
\* 100%, the sum of the reported mass_in_grams is at least the sum of the
\* three targets.
C12_ReportedMassCoversTargets ==
    (Succeeded /\ CatalogWithin100) => ReportedMassSum >= TargetSum

\* C12 amended: on such a success the sum of the masses of the selected
\* products before rounding is at least the sum of the three targets, and
\* the sum of the reported mass_in_grams is at least the sum of the targets
\* less 0.005 g for each listed product.
C12_MassCoversTargets ==
    (Succeeded /\ CatalogWithin100) =>
        /\ SelectedMassSum >= TargetSum
        /\ ReportedMassSum >= TargetSum - 5000 * Len(result.mixture)

\* C12 witness: a success with two listed products and three positive
\* targets, where the selected mass is above total_mass / 10
C12_Witness ==
    /\ Succeeded
    /\ CatalogWithin100
    /\ Len(result.mixture) = 2
    /\ \A p \in Nutrients : desired_composition[p] > 0
    /\ ReportedMassSum >= TargetSum
    /\ 10 * SelectedMassSum > args.total_mass.val

\* a call of get_component_masses has been made and its result not yet taken
GcmCalled == gcm_args # NoResult

GcmCall(n, p, k, mass) ==
    [n_percentage |-> Dec(n), p_percentage |-> Dec(p), k_percentage |-> Dec(k),
     total_mass |-> Dec(mass)]

\* the arguments are Decimals, the percentages in [0, 100], total_mass > 0
GcmValid ==
    /\ \A i \in 1..4 : gcm_args[GcmNames[i]].type = "Decimal"
    /\ \A i \in 1..3 : /\ gcm_args[GcmNames[i]].val >= 0
                        /\ gcm_args[GcmNames[i]].val <= 100 * Milli
    /\ gcm_args.total_mass.val > 0

\* percent / 100 x total_mass in hundredths, rounded half up: the whole
\* number of hundredths h with h - 1/2 <= percent x total_mass / 10^6 < h + 1/2,
\* that is floor((percent x total_mass + 500000) / 10^6); total_mass is
\* split into its thousands and the rest
ClaimHalfUp(percent, mass) ==
    LET thousands == percent * (mass \div 1000)
    IN  thousands \div 1000
        + ((thousands % 1000) * 1000 + percent * (mass % 1000) + 500000) \div (1000 * 1000)

C14_InvalidRejected ==
    GcmCalled =>
        /\ ~GcmValid => gcm_result.kind = "raise"
        /\ (/\ \A i \in 1..4 : gcm_args[GcmNames[i]].type = "Decimal"
            /\ \A i \in 1..3 : gcm_args[GcmNames[i]].val \in {0, 100 * Milli}
            /\ gcm_args.total_mass.val > 0) => gcm_result.kind = "return"

\* C14 witness: a call whose values are all in range and whose total_mass is
\* an int has raised TypeError for total_mass
C14_Witness ==
    /\ GcmCalled
    /\ \A i \in 1..3 : gcm_args[GcmNames[i]].type = "Decimal"
    /\ gcm_args.n_percentage.val = 10 * Milli
    /\ gcm_args.total_mass = Value("int", 100 * Milli)
    /\ gcm_result = Raise("TypeError", "must be a Decimal instance", "total_mass")

\* the call of apply_nano_coefficients that a step makes is valid: N, P and K
\* are in the mapping with non-negative Decimal masses that fit the 28 digits
\* of the context, and the coefficients given are Decimals in [0, 1]
AncValid ==
    /\ \A e \in {"N", "P", "K"} :
          /\ e \in DOMAIN component_masses
          /\ component_masses[e].type = "Decimal"
          /\ component_masses[e].val >= 0
          /\ component_masses[e].val < Infinity
    /\ \A name \in DOMAIN anc_args' :
          /\ anc_args'[name].type = "Decimal"
          /\ anc_args'[name].val >= 0
          /\ anc_args'[name].val <= Milli

\* the step is a call of apply_nano_coefficients
AncStep == anc_args' # NoResult /\ (anc_args' # anc_args \/ anc_result' # anc_result
                                    \/ component_masses' # component_masses)

\* the coefficient of element i in the call that a step makes: the one given,
\* or 0.5, 0.2, 0.4
ClaimCoefficient(i) ==
    IF AncNames[i] \in DOMAIN anc_args' THEN anc_args'[AncNames[i]].val
    ELSE <<500, 200, 400>>[i]

\* mass x coefficient in hundredths, rounded half up
ClaimDiscounted(mass, coefficient) == (mass * coefficient + 5000) \div (100 * 100)

C16_InPlace ==
    [][(AncStep /\ anc_result'.kind = "return") =>
          /\ anc_result' = [kind |-> "return"]
          /\ DOMAIN component_masses' = DOMAIN component_masses
          /\ \A key \in DOMAIN component_masses \ {"N", "P", "K"} :
                component_masses'[key] = component_masses[key]
          /\ \A i \in 1..3 :
                component_masses'[Elements[i]].val =
                    10 * ClaimDiscounted(component_masses[Elements[i]].val,
                                         ClaimCoefficient(i))]_vars

\* C16 witness: after a successful call the mapping holds the discounted
\* N = 50.00 next to its untouched key 'Ca'
C16_Witness ==
    /\ anc_args # NoResult
    /\ anc_result.kind = "return"
    /\ DOMAIN component_masses = {"N", "P", "K", "Ca"}
    /\ component_masses["Ca"] = Value("str", 7)
    /\ component_masses["N"] = Dec(50 * Milli)
    /\ component_masses["P"] = Dec(10 * Milli)

\* the elements absent from the mapping before the call
Missing == { e \in {"N", "P", "K"} : e \notin DOMAIN component_masses }

\* the elements whose value in the mapping is no Decimal or is negative
Unfit ==
    { e \in {"N", "P", "K"} \ Missing :
        component_masses[e].type # "Decimal" \/ component_masses[e].val < 0 }

\* one of the three masses is negative
SomeMassNegative ==
    \E e \in {"N", "P", "K"} \ Missing :
        component_masses[e].type \in {"Decimal", "int", "float"} /\ component_masses[e].val < 0

\* a coefficient given in the call lies outside [0, 1] or is no Decimal
SomeCoefficientInvalid ==
    \E name \in DOMAIN anc_args' :
        \/ anc_args'[name].type # "Decimal"
        \/ anc_args'[name].val < 0
        \/ anc_args'[name].val > Milli

\* C17 as stated: apply_nano_coefficients fails with an error that names the
\* missing key whenever N, P or K is absent from the mapping, and fails
\* whenever a mass is negative or a coefficient lies outside [0, 1] or is
\* not a Decimal.
C17_MissingKeyNamed ==
    [][AncStep =>
          /\ Missing # {} =>
                /\ anc_result'.kind = "raise"
                /\ anc_result'.message = "Missing required key"
                /\ anc_result'.name \in Missing
          /\ (SomeMassNegative \/ SomeCoefficientInvalid) =>
                anc_result'.kind = "raise"]_vars

\* the position of an element in the order of the checks
ElementIndex(e) == CHOOSE i \in 1..3 : Elements[i] = e

\* C17 amended: the call fails whenever N, P or K is absent, a mass is
\* negative or a coefficient lies outside [0, 1] or is not a Decimal, and
\* the mapping is left as it was; the error names the first absent key when
\* no element before it (in the order N, P, K) has a non-Decimal or negative
\* value.
C17_InvalidFails ==
    [][AncStep =>
          /\ (Missing # {} \/ SomeMassNegative \/ SomeCoefficientInvalid) =>
                /\ anc_result'.kind = "raise"
                /\ component_masses' = component_masses
          /\ \A e \in Missing :
                (\A f \in Missing \cup Unfit : ElementIndex(e) <= ElementIndex(f)) =>
                    anc_result' = Raise("ValueError", "Missing required key", e)]_vars

\* C17 witness: the call on a mapping with N and P but without K has raised
\* the error that names K
C17_Witness ==
    /\ anc_args # NoResult
    /\ DOMAIN component_masses = {"N", "P"}
    /\ component_masses["N"] = Dec(100 * Milli)
    /\ component_masses["P"] = Dec(50 * Milli)
    /\ anc_result = Raise("ValueError", "Missing required key", "K")

\* a call of validate_decimal_string on a str has been made
VdsCalled == vds_args # NoResult /\ vds_args.value_str.type = "str"

\* the number of fractional digits of a parsed value
ClaimFractionalDigits(value) ==
    IF value.kind = "finite" /\ value.exp < 0 THEN 0 - value.exp ELSE 0

\* what the claim says the call returns
ClaimOutcome(a) ==
    LET value == ParseDecimal(a.value_str.chars)
    IN  IF a.required /\ Strip(a.value_str.chars) = <<>> THEN Failure("must not be empty")
        ELSE IF value.kind \notin {"finite", "Infinity"} THEN Failure("must be a number")
        ELSE IF a.min_value # None /\ Less(value, a.min_value)
        THEN Failure("must be greater than or equal to min_value")
        ELSE IF a.max_value # None /\ Greater(value, a.max_value)
        THEN Failure("must be less than or equal to max_value")
        ELSE IF ClaimFractionalDigits(value) > a.max_decimals
        THEN Failure("must contain no more than max_decimals decimal places")
        ELSE Success(value)

\* C18: validate_decimal_string returns success with the parsed Decimal
\* exactly when the string parses as a number that is >= min_value,
\* <= max_value and has at most max_decimals fractional digits; otherwise it
\* returns a failure whose message is, in this order: empty (when required),
\* below the minimum, above the maximum, too many decimals, and 'must be a
\* number' for a string that does not parse.
C18_DecimalStringValidated ==
    VdsCalled => vds_result = ClaimOutcome(vds_args)

\* the capitalized form the claim expects of each name tried
ClaimCapitalized(chars) ==
    IF chars \in {<<"a">>, <<"A">>} THEN <<"A">>
    ELSE IF chars = <<"a", "B">> THEN <<"A", "b">>
    ELSE chars

\* the names tried that are strings with a character other than white space
ClaimNames == { name \in NameArgs : name.type = "str" /\ name.chars \notin {<<>>, <<" ">>} }

ClaimAlreadyExists == "a category with this name already exists"

\* no two stored categories have the same name
CategoryNamesUnique ==
    \A i, j \in DOMAIN plant_categories : i # j => plant_categories[i] # plant_categories[j]

\* a step that is a call of create_plant_category(name) does what C19 says
CreateCategoryStep(name) ==
    CreatePlantCategory(name) =>
        IF \E other \in DOMAIN plant_categories :
              plant_categories[other] = ClaimCapitalized(name.chars)
        THEN /\ ~db_result'.success
             /\ db_result'.error = ClaimAlreadyExists
        ELSE /\ db_result'.success
             /\ db_result'.category_id \in DOMAIN plant_categories'
             /\ plant_categories'[db_result'.category_id] = ClaimCapitalized(name.chars)

\* a step that is a call of rename_plant_category(id, name) on an existing
\* category does what C19 says
RenameCategoryStep(id, name) ==
    RenamePlantCategory(Integer(id), name) =>
        IF \E other \in DOMAIN plant_categories \ {id} :
              plant_categories[other] = ClaimCapitalized(name.chars)
        THEN /\ ~db_result'.success
             /\ db_result'.error = ClaimAlreadyExists
        ELSE /\ db_result'.success
             /\ plant_categories'[id] = ClaimCapitalized(name.chars)

\* C19: plant category names stay unique after any sequence of calls: a name
\* is stored capitalized, a create_plant_category or rename_plant_category
\* whose capitalized name is that of another existing category fails with the
\* 'already exists' error, and a call that fails leaves the stored categories
\* as they were.
C19_CategoryNamesUnique ==
    [][/\ CategoryNamesUnique'
       /\ \A name \in ClaimNames : CreateCategoryStep(name)
       /\ \A id \in DOMAIN plant_categories, name \in ClaimNames : RenameCategoryStep(id, name)
       /\ (db_result' # NoResult /\ ~db_result'.success) =>
              plant_categories' = plant_categories]_vars

\* C19 witness: two categories are stored and a call has just failed with the
\* 'already exists' error
C19_Witness ==
    /\ Cardinality(DOMAIN plant_categories) = 2
    /\ db_result # NoResult
    /\ ~db_result.success
    /\ db_result.error = ClaimAlreadyExists

\* every stored plant refers to a stored category and every stored episode to
\* a stored plant
ReferencesKept ==
    /\ \A p \in DOMAIN plants : plants[p].category \in DOMAIN plant_categories
    /\ \A e \in DOMAIN episodes : episodes[e].plant \in DOMAIN plants

\* the rows of a table other than those of the given ids
ClaimWithout(rows, gone) == [i \in DOMAIN rows \ gone |-> rows[i]]

\* a step that is a call of create_plant(name, id) with an int that is the id
\* of no category fails and stores nothing
CreatePlantStep(name, id) ==
    (CreatePlant(name, Integer(id)) /\ id \notin DOMAIN plant_categories) =>
        /\ db_result' = [success |-> FALSE, error |-> "the category does not exist"]
        /\ UNCHANGED <<plant_categories, plants, episodes>>

\* a step that is a successful delete_plant_category(id) removes the category,
\* its plants and their episodes, and nothing else
DeleteCategoryStep(id) ==
    (DeletePlantCategory(Integer(id)) /\ db_result'.success) =>
        LET its_plants == { p \in DOMAIN plants : plants[p].category = id }
            their_episodes == { e \in DOMAIN episodes : episodes[e].plant \in its_plants }
        IN  /\ id \in DOMAIN plant_categories
            /\ plant_categories' = ClaimWithout(plant_categories, {id})
            /\ plants' = ClaimWithout(plants, its_plants)
            /\ episodes' = ClaimWithout(episodes, their_episodes)

\* a step that is a successful delete_plant(id) removes the plant and its
\* episodes, and nothing else
DeletePlantStep(id) ==
    (DeletePlant(Integer(id)) /\ db_result'.success) =>
        /\ id \in DOMAIN plants
        /\ plant_categories' = plant_categories
        /\ plants' = ClaimWithout(plants, {id})
        /\ episodes' = ClaimWithout(episodes, { e \in DOMAIN episodes : episodes[e].plant = id })

\* C20: after any sequence of create, rename and delete operations every
\* stored plant refers to an existing category and every stored episode to an
\* existing plant; create_plant with the id of no existing category fails
\* with the 'category does not exist' error and stores nothing; a successful
\* delete_plant_category or delete_plant removes the record together with the
\* plants and episodes that depend on it.
C20_ReferencesKept ==
    [][/\ ReferencesKept'
       /\ \A name \in ClaimNames, id \in 1..(MaxRowId + 1) : CreatePlantStep(name, id)
       /\ \A id \in 1..(MaxRowId + 1) : DeleteCategoryStep(id) /\ DeletePlantStep(id)]_vars

\* C20 witness: a delete has just succeeded, and the first category, the first
\* plant and the first episode are gone while later ones remain
C20_Witness ==
    /\ db_result = [success |-> TRUE]
    /\ DOMAIN plant_categories = {2}
    /\ DOMAIN plants = {2}
    /\ DOMAIN episodes = {2}

\* some assignment of non-negative unit counts satisfies the six constraints
ClaimFeasible == \E y \in ClaimBox : ClaimInBand(y)

\* C21: for numeric inputs with total_mass > 0 the call returns the 'could
\* not find a matching composition' failure exactly when no assignment of
\* non-negative integer unit counts satisfies all six band constraints, and
\* success whenever one exists; no assignment has a negative cost, so the
\* minimisation is never unbounded.
C21_FailureIffInfeasible ==
    (pc = "done" /\ NumericCall /\ args.total_mass.val > 0) =>
        /\ result.kind = "return"
        /\ ClaimFeasible => result.success
        /\ ~ClaimFeasible =>
              result = [kind |-> "return", success |-> FALSE, error |-> CompositionError]
        /\ status \in {"Optimal", "Infeasible"}
        /\ \A y \in ClaimBox : ClaimCost(y) >= 0

\* C21 witness: the only product carries nitrogen, the nitrogen target is
\* positive, and the call has failed because no whole number of units falls
\* into the band
C21_Witness ==
    /\ pc = "done"
    /\ NumericCall
    /\ Len(ingredients) = 1
    /\ ingredients[1].composition["N"] > 0
    /\ desired_composition["N"] > 0
    /\ desired_composition["P"] = 0
    /\ desired_composition["K"] = 0
    /\ result = [kind |-> "return", success |-> FALSE, error |-> CompositionError]

\* the whole numbers nearest to num / den (two of them on an exact tie)
ClaimNearest(num, den) ==
    { q \in {num \div den, num \div den + 1} :
        2 * (num - q * den) <= den /\ 2 * (q * den - num) <= den }

\* the products with a positive unit count, and the entry of the mixture
\* that lists product i
ClaimListed == { i \in 1..Len(ingredients) : varValue[i] > 0 }

ClaimEntry(i) ==
    CHOOSE e \in { result.mixture[j] : j \in 1..Len(result.mixture) } :
        e.name = ingredients[i].name

\* unit count x 0.05 x total_mass, in ug
ClaimExactMass(i) == varValue[i] * ClaimUnit

\* mass (ug) x percentage / 100, the percentage in hundredths of a percent
ClaimShare(mass, percentage) ==
    (mass \div (100 * 100)) * percentage + ((mass % (100 * 100)) * percentage) \div (100 * 100)

\* mass_in_grams is unit count x 0.05 x total_mass rounded to 2 decimals
ClaimMassRounded ==
    \A i \in ClaimListed :
        ClaimEntry(i).mass_in_grams \in ClaimNearest(ClaimExactMass(i), 100 * 100)

\* C22 as stated: for every product listed in a successful result,
\* mass_in_grams is unit count x 0.05 x total_mass rounded to 2 decimals, the
\* cost is the reported mass_in_grams x price_per_gram rounded to 2 decimals,
\* and the contribution to actual_composition is the reported mass_in_grams x
\* percentage / 100.
C22_FromReportedMass ==
    Succeeded =>
        /\ ClaimMassRounded
        /\ \A i \in ClaimListed :
              ClaimEntry(i).cost
                \in ClaimNearest(ClaimEntry(i).mass_in_grams * ingredients[i].price, 100)
        /\ \A p \in Nutrients :
              actual_composition[p] =
                SumTo([i \in 1..Len(ingredients) |->
                         IF i \in ClaimListed
                         THEN ClaimEntry(i).mass_in_grams * ingredients[i].composition[p]
                         ELSE 0],
                      Len(ingredients))

\* C22 amended: mass_in_grams is unit count x 0.05 x total_mass rounded to 2
\* decimals, while the cost is the mass before rounding x price_per_gram,
\* rounded to 2 decimals, and the contribution to actual_composition is the
\* mass before rounding x percentage / 100.
C22_FromExactMass ==
    Succeeded =>
        /\ ClaimMassRounded
        /\ \A i \in ClaimListed :
              ClaimEntry(i).cost \in ClaimNearest(ClaimExactMass(i) * ingredients[i].price, G)
        /\ \A p \in Nutrients :
              actual_composition[p] =
                SumTo([i \in 1..Len(ingredients) |->
                         IF i \in ClaimListed
                         THEN ClaimShare(ClaimExactMass(i), ingredients[i].composition[p])
                         ELSE 0],
                      Len(ingredients))

\* C22 witness: a success that lists a product whose mass is no whole number
\* of hundredths of a gram
C22_Witness ==
    /\ Succeeded
    /\ \E i \in ClaimListed : ClaimExactMass(i) % (100 * 100) # 0

\* C23: after any sequence of catalog operations (create_fertilizing_mixture,
\* and increase, decrease or manual edit of a price on the prices page
\* followed by save) every stored product has a price_per_gram strictly
\* greater than 0 and each of its three percentages within [0, 100].
C23_CatalogValid ==
    \A i \in 1..Len(table) :
        /\ table[i].price_per_gram > 0
        /\ table[i].nitrogen_percentage \in 0..(100 * 100)
        /\ table[i].phosphorus_percentage \in 0..(100 * 100)
        /\ table[i].potassium_percentage \in 0..(100 * 100)

\* C24: apply_nano_coefficients is all-or-nothing: whenever it raises, the
\* mapping passed in is left exactly as it was, with none of N, P, K already
\* discounted.
C24_AllOrNothing ==
    [][(AncStep /\ anc_result'.kind = "raise") =>
          component_masses' = component_masses]_vars

\* the products of the catalog with 0% N, P and K and a positive price
ClaimInert ==
    { i \in 1..Len(ingredients) :
        /\ \A p \in Nutrients : ingredients[i].composition[p] = 0
        /\ ingredients[i].price > 0 }

\* the entries of a mixture with the given name
ClaimEntriesNamed(mixture_data, name) ==
    { j \in 1..Len(mixture_data) : mixture_data[j].name = name }

\* C25: a catalog product whose N, P and K percentages are all 0 and whose
\* price is positive never appears in the mixture of a successful result, so
\* the mixture to which the home page appends its magnesium sulfate entry
\* lists magnesium sulfate once.
C25_InertProductLeftOut ==
    Succeeded =>
        /\ \A i \in ClaimInert : ClaimEntriesNamed(result.mixture, ingredients[i].name) = {}
        /\ \A magnesium_sulfate_mass \in {1, 150} :
              Cardinality(ClaimEntriesNamed(
                  WithMagnesiumSulfate(result.mixture, table, magnesium_sulfate_mass),
                  MagnesiumSulfateName)) = 1

\* C25 witness: a success on a catalog that holds magnesium sulfate (0:0:0 at
\* a positive price) next to a product that is listed
C25_Witness ==
    /\ Succeeded
    /\ \E i \in ClaimInert : ingredients[i].name = MagnesiumSulfateName
    /\ Len(result.mixture) > 0

\* a calculation of some home page is running on its worker thread:
\* ready_to_leave has been cleared and the worker has neither returned nor
\* raised
ClaimCalculating == \E t \in 1..Len(tasks) : tasks[t].pc = "calculating"

\* C26: while the calculation of a home page runs on the worker thread,
\* every request of the menu for a valid route is refused: it replaces
\* neither the current page object nor the shown content.
C26_NavigationRefused ==
    [][(ClaimCalculating /\ \E route_name \in MenuRoutes : Navigate(route_name))
         => /\ current_page_object' = current_page_object
            /\ content_container' = content_container]_vars

\* C27: whatever navigation requests came in between, the end of the task
\* pops a non-empty overlay, and what it pops is the progress ring the task
\* itself appended.
C27_PopsOwnIndicator ==
    [][\A t \in 1..Len(tasks) :
         TaskComplete(t) => /\ overlay # <<>>
                            /\ overlay[Len(overlay)] = [kind |-> "ProgressRing", task |-> t]]_vars

\* the import has returned
ClaimImportOver == import_pc \in {"returned", "finished"}

\* the user has answered a prompt of the import with 'cancel import'
ClaimDeclined == \E f \in 1..Len(futures) : futures[f] = "decline"

\* C28: when the user has answered 'cancel import' to a prompt of the
\* import, the import returns success = False and the tables are as they
\* were when the import began (no step but the import changes them, so that
\* is how they were when the main transaction began).
C28_CancelRestores ==
    (ClaimImportOver /\ ClaimDeclined) =>
        /\ import_result = [success |-> FALSE]
        /\ IF transactions.main = NoResult THEN TRUE ELSE Tables = transactions.main

\* C29: the coroutine goes on past a prompt only when the user has answered
\* the dialog that the prompt opened, which the answer closes: it never goes
\* on with the dialog still open, on the answer to an earlier prompt.
C29_OwnDecision == [][Resume => ~warning_dialog.open]_vars

\* the staged episodes of the by-NPK page: none when no plant is staged
ClaimStagedNPK ==
    IF npk_page.plant_data_object = None THEN 0
    ELSE Len(npk_page.plant_data_object.fertilizing_episodes)

\* C30: on the by-mixture page, while a component is being entered, the
\* number of staged episodes is current_episode_number and the last episode
\* holds current_component_number - 1 components; on the by-NPK page the
\* number of staged episodes is current_episode_number
C30_StagedMatchesCounters ==
    /\ mixture_page.current_component_number # None =>
          LET staged == mixture_page.plant_data_object.fertilizing_episodes
          IN  /\ Len(staged) = mixture_page.current_episode_number.val
              /\ staged # <<>>
              /\ Len(staged[Len(staged)].components) =
                     mixture_page.current_component_number.val - 1
    /\ ClaimStagedNPK = npk_page.current_episode_number

====
